---- MODULE Spec2Model ----
(***************************************************************************)
(* Model of the chat room of chat-tails: the Room control loop (run,       *)
(* addClient, removeClient, broadcastMessage), its public entry points     *)
(* (Join, Leave, Broadcast, ReserveNickname, Stop) and the per-connection  *)
(* session (NewClient, requestNickname, Handle).                           *)
(*                                                                         *)
(* Every goroutine is a process with a program counter.  The three request *)
(* channels are unbuffered, so a send is a rendezvous: the sender's step   *)
(* and the loop's receive are one action.  Each action is one atomic       *)
(* section of the code (a mutex-protected block, a channel operation, a    *)
(* field read or write).                                                   *)
(***************************************************************************)
EXTENDS Integers, Sequences, FiniteSets, TLC

\* ---------------------------------------------------------------- bounds
NumSessions == 3      \* connections accepted by the server
NumNicks == 2         \* distinct valid nicknames typed during negotiation
MaxCapacity == 2      \* largest MaxUsers the room is created with
MaxLines == 1         \* chat lines typed in a run, all sessions together
historySize == 2      \* NewRoom's historySize argument (--history-size)
TicksPerSecond == 100 \* resolution of the clock read by time.Now()
MaxAttempts == 7      \* lines one client types while its rate is watched
MaxBuffered == 2      \* lines a connection holds that Handle has not read yet
MaxConnections == 2   \* connections accepted before the server is stopped
MaxDeliveries == 2    \* goroutines of broadcastMessage writing to one client
MaxWrites == 3        \* messages written to one client in a run
MaxBurst == 11        \* lines one client sends in a burst

\* ------------------------------------------------------------- constants
MaxMessageLength == 1000
MaxNicknameLen == 20
MinNicknameLen == 2
MessageRateLimit == 5
RateLimitWindow == 5 * TicksPerSecond

\* --------------------------------------------------------------- values

Sessions == 1..NumSessions
\* the nicknames: those typed, and those of the members a run starts with
Nicks == 1..(IF NumNicks > NumSessions THEN NumNicks ELSE NumSessions)

\* A registry entry: no key, a key with a nil client (reservation), or a
\* key with a client.
Absent == -1
Reserved == 0
NoClient == 0
\* the goroutines that write to one client: Handle's (0) and those started
\* by broadcastMessage; c.mu when nobody holds it
Writers == 0..MaxDeliveries
Unlocked == -1
\* Message.From of a notice ("System"); nicknames are 1..NumNicks
System == 0
\* Message.Content: <<nickname, text>>, the nickname being the %s of a notice
Text(n, str) == <<n, str>>
NoMsg == [From |-> 0, Content |-> Text(0, ""), IsSystem |-> FALSE, Timestamp |-> <<0, 0>>]

VARIABLES
  MaxUsers,           \* Room.MaxUsers
  enableHistory,      \* Room.enableHistory
  clients,            \* Room.clients: Nicks -> Absent | Reserved | session
  history,            \* Room.history
  ctxDone,            \* Room.ctx is cancelled
  done,               \* Room.done is closed
  chClosed,           \* Room.join, leave and broadcast are closed
  loopPc,             \* position of the goroutine running Room.run
  curClient,          \* the client the loop received from join or leave
  curMsg,             \* the message the loop is broadcasting
  pending,            \* goroutines started by `go client.sendMessage(msg)`
  stopPc,             \* position of the caller of Room.Stop
  pc,                 \* position of each session goroutine
  cand,               \* the nickname a session has read and validated
  Nickname,           \* Client.Nickname
  fullRoomRejection,  \* Client.fullRoomRejection
  outMsg,             \* the message a session is submitting
  lines,              \* chat lines read so far
  crashed,            \* a goroutine panicked: the process is gone
  dispatched,         \* timestamps of the chat lines whose fan-out has run
  dropped,            \* timestamps of the chat lines Broadcast gave up on
  lateCall,           \* sessions whose present Join, Leave or Broadcast call began after Stop returned
  inflightAtStop,     \* timestamps of the chat lines in flight when Stop was called
  stalled,            \* sessions whose connection takes no more bytes: a write to it never returns
  now,                \* the last reading of time.Now() by the client that types
  messageTimestamps,  \* Client.messageTimestamps of that client
  rateLog,            \* the verdicts of its checkRateLimit calls, oldest first
  releaseArg,         \* the nickname the last ReleaseNickname call was given
  unread,             \* per session, the lines its reader holds once Client.close has run
  conn,               \* per session, Client.conn: "open", or "nil" once Client.close has run
  written,            \* the writes of the last step of a session to a connection
  readLine,           \* the line ReadString returned last
  srvPc,              \* position of the caller of Server.Stop
  registered,         \* the sessions whose connection is in Server.connections
  netClosed,          \* the sessions whose net.Conn has been closed by the server side
  peerGone,           \* the sessions whose peer has closed its end
  closeCalls,         \* per session, the calls of c.conn.Close() made by Client.close
  closedBy,           \* per session, the callers Client.close has returned to
  active,             \* the sessions that have entered Handle
  mu,                 \* the goroutine that holds c.mu of the watched client
  wpc,                \* per writing goroutine, its position in write or sendMessage
  writer,             \* the fragments in the client's bufio.Writer
  wire                \* the fragments handed to the client's connection

vars == <<MaxUsers, enableHistory, clients, history, ctxDone, done, chClosed,
          loopPc, curClient, curMsg, pending, stopPc, pc, cand, Nickname,
          fullRoomRejection, outMsg, lines, crashed, dispatched,
          dropped, lateCall, inflightAtStop, stalled, now,
          messageTimestamps, rateLog, releaseArg, unread, conn, written,
          readLine, srvPc, registered, netClosed, peerGone, closeCalls,
          closedBy, active, mu, wpc, writer, wire>>

roomCfg == <<MaxUsers, enableHistory>>
roomVars == <<clients, history, pending>>
loopVars == <<loopPc, curClient, curMsg>>
sessVars == <<pc, cand, Nickname, fullRoomRejection, outMsg>>
stopVars == <<ctxDone, done, chClosed, stopPc>>
msgGhosts == <<dispatched, dropped, inflightAtStop>>
ghostVars == <<msgGhosts, lateCall>>
rateVars == <<now, messageTimestamps, rateLog>>
srvVars == <<srvPc, registered, netClosed, peerGone, closeCalls, closedBy, active>>
writeVars == <<mu, wpc, writer, wire>>
connVars == <<unread, conn, written, readLine, srvVars, writeVars>>

\* ---------------------------------------------------------------- helpers
\* Timestamp is the token that tells two messages apart: <<c, k>> is the
\* time at which session c read the k-th line of the run, <<c, 0>> and <<c, -1>> the
\* times at which the loop built c's join and leave notices
Message(from, content, isSystem, ts) ==
  [From |-> from, Content |-> content, IsSystem |-> isSystem, Timestamp |-> ts]

\* variant: the count takes reservations as well
activeClientsWithReservations(cl) == Cardinality({n \in Nicks : cl[n] # Absent})

\* addClient's loop over r.clients: the entries that hold a client
activeClients(cl) == Cardinality({n \in Nicks : cl[n] \in Sessions})

\* the `_, exists := r.clients[nickname]` test
exists(cl, n) == cl[n] # Absent

\* variant: ReserveNickname without the `exists` test
ReserveNicknameOkAlways(cl, n) == TRUE

\* ReserveNickname's return value
ReserveNicknameOk(cl, n) == ~exists(cl, n)

\* variant: ReserveNickname stores nil without the `exists` test
ReserveNicknameMapOverwrite(cl, n) == [cl EXCEPT ![n] = Reserved]

\* ReserveNickname's effect on the map
ReserveNicknameMap(cl, n) ==
  IF exists(cl, n) THEN cl ELSE [cl EXCEPT ![n] = Reserved]

\* variant: ReleaseNickname without the `client == nil` test
ReleaseNicknameMapAny(cl, n) ==
  IF exists(cl, n) THEN [cl EXCEPT ![n] = Absent] ELSE cl

\* ReleaseNickname's effect on the map
ReleaseNicknameMap(cl, n) ==
  IF exists(cl, n) /\ cl[n] = Reserved THEN [cl EXCEPT ![n] = Absent] ELSE cl

\* variant: addClient rejects only above MaxUsers
roomIsFullOffByOne(cl, max) == activeClients(cl) > max

\* addClient's decision
roomIsFull(cl, max) == activeClients(cl) >= max

\* variant: the rejection leaves the reservation in the map
addClientMapKeepReservation(cl, max, c, n) ==
  IF roomIsFull(cl, max) THEN cl ELSE [cl EXCEPT ![n] = c]

\* addClient's effect on the map for client c with nickname n
addClientMap(cl, max, c, n) ==
  IF roomIsFull(cl, max) THEN [cl EXCEPT ![n] = Absent]
                         ELSE [cl EXCEPT ![n] = c]

\* variant: removeClient without the delete
removeClientMapKeepEntry(cl, n) == cl

\* removeClient's effect on the map
removeClientMap(cl, n) ==
  IF exists(cl, n) THEN [cl EXCEPT ![n] = Absent] ELSE cl

\* the notices addClient and removeClient build for client c with nickname n
joinNotice(c, n) == Message(System, Text(n, "has joined the room"), TRUE, <<c, 0>>)
leaveNotice(c, n) == Message(System, Text(n, "has left the room"), TRUE, <<c, -1>>)

\* variant: the message is put in front of the buffer
addToHistoryPrepend(h, m) ==
  LET a == <<m>> \o h
  IN IF Len(a) > historySize THEN SubSeq(a, 1, historySize) ELSE a

\* variant: the trim keeps the oldest historySize messages
addToHistoryKeepOldest(h, m) ==
  LET a == Append(h, m)
  IN IF Len(a) > historySize THEN SubSeq(a, 1, historySize) ELSE a

\* addToHistory
addToHistory(h, m) ==
  LET a == Append(h, m)
  IN IF Len(a) > historySize
       THEN SubSeq(a, Len(a) - historySize + 1, Len(a))
       ELSE a


\* ------------------------------------------------------------------- Init
\* the connections as the server accepts them: open, nothing received
InitConn ==
  /\ unread = [s \in Sessions |-> <<>>]
  /\ conn = [s \in Sessions |-> "open"]
  /\ written = {}
  /\ readLine = <<>>
  /\ srvPc = "idle"
  /\ registered = {}
  /\ netClosed = {}
  /\ peerGone = {}
  /\ closeCalls = [s \in Sessions |-> 0]
  /\ closedBy = [s \in Sessions |-> {}]
  /\ active = {}
  /\ mu = Unlocked
  /\ wpc = [w \in Writers |-> "idle"]
  /\ writer = <<>>
  /\ wire = <<>>

Init ==
  /\ MaxUsers \in 1..MaxCapacity
  /\ enableHistory \in BOOLEAN
  /\ clients = [n \in Nicks |-> Absent]
  /\ history = <<>>
  /\ ctxDone = FALSE
  /\ done = FALSE
  /\ chClosed = FALSE
  /\ loopPc = "select"
  /\ curClient = NoClient
  /\ curMsg = NoMsg
  /\ pending = {}
  /\ stopPc = "idle"
  /\ pc = [s \in Sessions |-> "requestNickname"]
  /\ cand = [s \in Sessions |-> 0]
  /\ Nickname = [s \in Sessions |-> 0]
  /\ fullRoomRejection = [s \in Sessions |-> FALSE]
  /\ outMsg = [s \in Sessions |-> NoMsg]
  /\ lines = 0
  /\ crashed = FALSE
  /\ dispatched = {}
  /\ dropped = {}
  /\ lateCall = {}
  /\ inflightAtStop = {}
  /\ stalled = {}
  /\ now = 0
  /\ messageTimestamps = <<>>
  /\ rateLog = <<>>
  /\ releaseArg = 0
  /\ InitConn

\* variant: broadcastMessage calls client.sendMessage without `go`
syncWritesAll(cl, m) == {cl[n] : n \in {k \in Nicks : cl[k] \in Sessions}}

\* The clients broadcastMessage writes to from the loop goroutine itself:
\* none, every write is in a goroutine of its own.
syncWrites(cl, m) == {}

\* variant: a goroutine for every key of the map, reservations included
fanOutAllEntries(cl, m) ==
  {[to |-> cl[n], msg |-> m] : n \in {k \in Nicks : cl[k] # Absent}}

\* The goroutines broadcastMessage starts: one per entry holding a client.
\* sendMessage writes nothing once the client's connection is closed, so
\* the goroutines of a session that has returned are not kept.
fanOut(cl, m) ==
  {[to |-> cl[n], msg |-> m] : n \in {k \in Nicks : cl[k] \in Sessions /\ pc[cl[k]] # "closed"}}

\* --------------------------------------------------- session: NewClient
\* a session enters, and comes out of, Room.Join, Room.Leave or Room.Broadcast
callBegins(s) == IF stopPc = "returned" THEN lateCall \cup {s} ELSE lateCall
callEnds(s) == lateCall \ {s}

\* The code treats all connections and all valid nicknames alike, so the
\* sessions are numbered in the order in which their reservations succeed
\* and the nicknames in the order in which they are first reserved: session
\* s then only ever types one of the first s nicknames.
hasReserved(t) == pc[t] \notin {"requestNickname", "ReserveNickname"}

\* requestNickname: a line was read, trimmed and accepted by validateNickname
ReadNickname(s, n) ==
  /\ pc[s] = "requestNickname"
  /\ s \notin stalled
  /\ s \notin netClosed \cup peerGone
  /\ n <= s
  /\ cand' = [cand EXCEPT ![s] = n]
  /\ pc' = [pc EXCEPT ![s] = "ReserveNickname"]
  /\ UNCHANGED <<connVars, roomCfg, stalled, rateVars, releaseArg, roomVars, loopVars, stopVars, ghostVars>>
  /\ UNCHANGED <<Nickname, fullRoomRejection, outMsg, crashed, lines>>

\* requestNickname: the call of Room.ReserveNickname and what follows it
ReserveNickname(s) ==
  /\ pc[s] = "ReserveNickname"
  /\ ReserveNicknameOk(clients, cand[s]) => \A t \in 1..(s - 1) : hasReserved(t)
  /\ clients' = ReserveNicknameMap(clients, cand[s])
  /\ IF ReserveNicknameOk(clients, cand[s])
       THEN /\ Nickname' = [Nickname EXCEPT ![s] = cand[s]]
            /\ pc' = [pc EXCEPT ![s] = "Join"]
       ELSE /\ Nickname' = Nickname
            /\ pc' = [pc EXCEPT ![s] = "requestNickname"]
  /\ cand' = [cand EXCEPT ![s] = 0]
  /\ UNCHANGED <<connVars, roomCfg, stalled, rateVars, releaseArg, history, pending, loopVars, stopVars, msgGhosts>>
  /\ UNCHANGED <<fullRoomRejection, outMsg, crashed, lines>>
  /\ lateCall' = IF ReserveNicknameOk(clients, cand[s]) THEN callBegins(s) ELSE lateCall

\* variant: r.join has a buffer, the send returns with the client queued
JoinQueued(s) ==
  /\ pc[s] = "Join"
  /\ pc' = [pc EXCEPT ![s] = "checkRejection"]
  /\ UNCHANGED <<connVars, roomCfg, stalled, rateVars, releaseArg, roomVars, loopVars, stopVars, msgGhosts>>
  /\ UNCHANGED <<cand, Nickname, fullRoomRejection, outMsg, crashed, lines>>
  /\ lateCall' = callEnds(s)

\* Room.Join, case r.join <- client: the loop's select receives the client
JoinReceived(s) ==
  /\ pc[s] = "Join"
  /\ loopPc = "select"
  /\ loopPc' = "addClient"
  /\ curClient' = s
  /\ pc' = [pc EXCEPT ![s] = "checkRejection"]
  /\ UNCHANGED <<connVars, roomCfg, stalled, rateVars, releaseArg, roomVars, curMsg, stopVars, msgGhosts>>
  /\ UNCHANGED <<cand, Nickname, fullRoomRejection, outMsg, crashed, lines>>
  /\ lateCall' = callEnds(s)

\* Room.Join, case <-r.ctx.Done()
JoinCancelled(s) ==
  /\ pc[s] = "Join"
  /\ ctxDone
  /\ pc' = [pc EXCEPT ![s] = "checkRejection"]
  /\ UNCHANGED <<connVars, roomCfg, stalled, rateVars, releaseArg, roomVars, loopVars, stopVars, msgGhosts>>
  /\ UNCHANGED <<cand, Nickname, fullRoomRejection, outMsg, crashed, lines>>
  /\ lateCall' = callEnds(s)

\* Room.Join, case r.join <- client when Stop has closed r.join: the send
\* can proceed, select may choose it, and a send on a closed channel panics
JoinPanic(s) ==
  /\ pc[s] = "Join"
  /\ chClosed
  /\ crashed' = TRUE
  /\ pc' = [pc EXCEPT ![s] = "panic"]
  /\ UNCHANGED <<connVars, roomCfg, stalled, rateVars, releaseArg, roomVars, loopVars, stopVars, ghostVars, lines>>
  /\ UNCHANGED <<cand, Nickname, fullRoomRejection, outMsg>>

Join(s) == JoinReceived(s) \/ JoinCancelled(s) \/ JoinPanic(s)

\* NewClient after Join: client.fullRoomRejection is set, so NewClient
\* closes the connection and returns "room is full"
NewClientRoomFull(s) ==
  /\ pc[s] = "checkRejection"
  /\ fullRoomRejection[s]
  /\ pc' = [pc EXCEPT ![s] = "errRoomFull"]
  /\ Nickname' = [Nickname EXCEPT ![s] = 0]
  /\ UNCHANGED <<connVars, roomCfg, stalled, rateVars, releaseArg, roomVars, loopVars, stopVars, ghostVars>>
  /\ UNCHANGED <<cand, fullRoomRejection, outMsg, crashed, lines>>

\* NewClient after Join: the flag is read as false, sendWelcomeMessage and
\* sendHistory write to the connection and the server runs Handle
NewClientWelcome(s) ==
  /\ pc[s] = "checkRejection"
  /\ ~fullRoomRejection[s]
  /\ s \notin stalled
  /\ s \notin netClosed
  /\ pc' = [pc EXCEPT ![s] = "Handle"]
  /\ UNCHANGED <<connVars, roomCfg, stalled, rateVars, releaseArg, roomVars, loopVars, stopVars, ghostVars>>
  /\ UNCHANGED <<cand, Nickname, fullRoomRejection, outMsg, crashed, lines>>

\* NewClient after Join: the flag is read as false and sendWelcomeMessage
\* fails; NewClient calls room.Leave, closes the connection and returns
\* "welcome message failed"
NewClientWelcomeFailed(s) ==
  /\ pc[s] = "checkRejection"
  /\ ~fullRoomRejection[s]
  /\ s \notin stalled
  /\ pc' = [pc EXCEPT ![s] = "Leave"]
  /\ UNCHANGED <<connVars, roomCfg, stalled, rateVars, releaseArg, roomVars, loopVars, stopVars, msgGhosts>>
  /\ UNCHANGED <<cand, Nickname, fullRoomRejection, outMsg, crashed, lines>>
  /\ lateCall' = callBegins(s)

\* ------------------------------------------------------ session: Handle
\* Handle: a line that is not a command passed the checks; the session
\* builds the Message and calls room.Broadcast
HandleLine(s) ==
  /\ pc[s] = "Handle"
  /\ s \notin stalled
  /\ s \notin netClosed \cup peerGone
  /\ lines < MaxLines
  /\ lines' = lines + 1
  /\ outMsg' = [outMsg EXCEPT ![s] =
                  Message(Nickname[s], Text(0, "text"), FALSE, <<s, lines + 1>>)]
  /\ pc' = [pc EXCEPT ![s] = "Broadcast"]
  /\ UNCHANGED <<connVars, roomCfg, stalled, rateVars, releaseArg, roomVars, loopVars, stopVars, msgGhosts>>
  /\ UNCHANGED <<cand, Nickname, fullRoomRejection, crashed>>
  /\ lateCall' = callBegins(s)

\* Handle returns (read error, EOF, /quit, cancellation): the deferred
\* function calls room.Leave
HandleReturn(s) ==
  /\ pc[s] = "Handle"
  /\ pc' = [pc EXCEPT ![s] = "Leave"]
  /\ UNCHANGED <<connVars, roomCfg, stalled, rateVars, releaseArg, roomVars, loopVars, stopVars, msgGhosts>>
  /\ UNCHANGED <<cand, Nickname, fullRoomRejection, outMsg, crashed, lines>>
  /\ lateCall' = callBegins(s)

\* Room.Broadcast, case r.broadcast <- msg
BroadcastReceived(s) ==
  /\ pc[s] = "Broadcast"
  /\ loopPc = "select"
  /\ loopPc' = "broadcastMessage"
  /\ curMsg' = outMsg[s]
  /\ outMsg' = [outMsg EXCEPT ![s] = NoMsg]
  /\ pc' = [pc EXCEPT ![s] = "Handle"]
  /\ UNCHANGED <<connVars, roomCfg, stalled, rateVars, releaseArg, roomVars, curClient, stopVars, msgGhosts>>
  /\ UNCHANGED <<cand, Nickname, fullRoomRejection, crashed, lines>>
  /\ lateCall' = callEnds(s)

\* Room.Broadcast, case <-r.ctx.Done(): the message is dropped
BroadcastCancelled(s) ==
  /\ pc[s] = "Broadcast"
  /\ ctxDone
  /\ outMsg' = [outMsg EXCEPT ![s] = NoMsg]
  /\ dropped' = dropped \cup {outMsg[s].Timestamp}
  /\ pc' = [pc EXCEPT ![s] = "Handle"]
  /\ UNCHANGED <<connVars, roomCfg, stalled, rateVars, releaseArg, roomVars, loopVars, stopVars, dispatched, inflightAtStop>>
  /\ UNCHANGED <<cand, Nickname, fullRoomRejection, crashed, lines>>
  /\ lateCall' = callEnds(s)

\* Room.Broadcast, case r.broadcast <- msg on the closed channel
BroadcastPanic(s) ==
  /\ pc[s] = "Broadcast"
  /\ chClosed
  /\ crashed' = TRUE
  /\ pc' = [pc EXCEPT ![s] = "panic"]
  /\ UNCHANGED <<connVars, roomCfg, stalled, rateVars, releaseArg, roomVars, loopVars, stopVars, ghostVars, lines>>
  /\ UNCHANGED <<cand, Nickname, fullRoomRejection, outMsg>>

Broadcast(s) == BroadcastReceived(s) \/ BroadcastCancelled(s) \/ BroadcastPanic(s)

\* Room.Leave, case r.leave <- client; the caller then closes the connection
LeaveReceived(s) ==
  /\ pc[s] = "Leave"
  /\ loopPc = "select"
  /\ loopPc' = "removeClient"
  /\ curClient' = s
  /\ pc' = [pc EXCEPT ![s] = "closed"]
  /\ pending' = {d \in pending : d.to # s}
  /\ UNCHANGED <<connVars, roomCfg, stalled, rateVars, releaseArg, clients, history, curMsg, stopVars, msgGhosts>>
  /\ UNCHANGED <<cand, Nickname, fullRoomRejection, outMsg, crashed, lines>>
  /\ lateCall' = callEnds(s)

\* Room.Leave, case <-r.ctx.Done()
LeaveCancelled(s) ==
  /\ pc[s] = "Leave"
  /\ ctxDone
  /\ pc' = [pc EXCEPT ![s] = "closed"]
  /\ pending' = {d \in pending : d.to # s}
  /\ UNCHANGED <<connVars, roomCfg, stalled, rateVars, releaseArg, clients, history, loopVars, stopVars, msgGhosts>>
  /\ UNCHANGED <<cand, Nickname, fullRoomRejection, outMsg, crashed, lines>>
  /\ lateCall' = callEnds(s)

\* Room.Leave, case r.leave <- client on the closed channel
LeavePanic(s) ==
  /\ pc[s] = "Leave"
  /\ chClosed
  /\ crashed' = TRUE
  /\ pc' = [pc EXCEPT ![s] = "panic"]
  /\ UNCHANGED <<connVars, roomCfg, stalled, rateVars, releaseArg, roomVars, loopVars, stopVars, ghostVars, lines>>
  /\ UNCHANGED <<cand, Nickname, fullRoomRejection, outMsg>>

Leave(s) == LeaveReceived(s) \/ LeaveCancelled(s) \/ LeavePanic(s)

\* ------------------------------------------------------- the control loop
\* addClient up to r.mu.Unlock(): count, then delete the entry or store c
addClient ==
  /\ loopPc = "addClient"
  /\ clients' = addClientMap(clients, MaxUsers, curClient, Nickname[curClient])
  /\ IF roomIsFull(clients, MaxUsers)
       THEN /\ loopPc' = "reject"
            /\ UNCHANGED <<curClient, curMsg>>
       ELSE /\ loopPc' = "broadcastMessage"
            /\ curClient' = NoClient
            /\ curMsg' = joinNotice(curClient, Nickname[curClient])
  /\ UNCHANGED <<connVars, roomCfg, stalled, rateVars, releaseArg, history, pending, stopVars, ghostVars, sessVars, crashed, lines>>

\* addClient's rejection after the unlock: the "room is full" message is
\* written to the client, then the flag is set
rejectClient ==
  /\ loopPc = "reject"
  /\ curClient \notin stalled
  /\ fullRoomRejection' = [fullRoomRejection EXCEPT ![curClient] = TRUE]
  /\ loopPc' = "select"
  /\ curClient' = NoClient
  /\ UNCHANGED <<connVars, roomCfg, stalled, rateVars, releaseArg, roomVars, curMsg, stopVars, ghostVars>>
  /\ UNCHANGED <<pc, cand, Nickname, outMsg, crashed, lines>>

\* variant: the notice is broadcast without the `if exists`
removeClientAlwaysNotifies ==
  /\ loopPc = "removeClient"
  /\ clients' = removeClientMap(clients, Nickname[curClient])
  /\ curClient' = NoClient
  /\ Nickname' = [Nickname EXCEPT ![curClient] = 0]
  /\ loopPc' = "broadcastMessage"
  /\ curMsg' = leaveNotice(curClient, Nickname[curClient])
  /\ UNCHANGED <<connVars, roomCfg, stalled, rateVars, releaseArg, history, pending, stopVars, ghostVars>>
  /\ UNCHANGED <<pc, cand, fullRoomRejection, outMsg, crashed, lines>>

\* removeClient up to r.mu.Unlock().  This is the last use of the Client of
\* a session that has returned, so its nickname is forgotten here.
removeClient ==
  /\ loopPc = "removeClient"
  /\ clients' = removeClientMap(clients, Nickname[curClient])
  /\ curClient' = NoClient
  /\ Nickname' = [Nickname EXCEPT ![curClient] = 0]
  /\ IF exists(clients, Nickname[curClient])
       THEN /\ loopPc' = "broadcastMessage"
            /\ curMsg' = leaveNotice(curClient, Nickname[curClient])
       ELSE /\ loopPc' = "select"
            /\ UNCHANGED curMsg
  /\ UNCHANGED <<connVars, roomCfg, stalled, rateVars, releaseArg, history, pending, stopVars, ghostVars>>
  /\ UNCHANGED <<pc, cand, fullRoomRejection, outMsg, crashed, lines>>

\* broadcastMessage up to r.mu.RLock(): the message goes to the history
broadcastMessage ==
  /\ loopPc = "broadcastMessage"
  /\ history' = IF enableHistory THEN addToHistory(history, curMsg) ELSE history
  /\ loopPc' = "fanOut"
  /\ UNCHANGED <<connVars, roomCfg, stalled, rateVars, releaseArg, clients, pending, curClient, curMsg, stopVars, ghostVars>>
  /\ UNCHANGED <<sessVars, crashed, lines>>

\* broadcastMessage under r.mu.RLock(): one goroutine per client
broadcastFanOut ==
  /\ loopPc = "fanOut"
  /\ syncWrites(clients, curMsg) \cap stalled = {}
  /\ pending' = pending \cup fanOut(clients, curMsg)
  /\ dispatched' = IF curMsg.IsSystem THEN dispatched
                    ELSE dispatched \cup {curMsg.Timestamp}
  /\ loopPc' = "select"
  /\ curMsg' = NoMsg
  /\ UNCHANGED <<connVars, roomCfg, stalled, rateVars, releaseArg, clients, history, curClient, stopVars, dropped, lateCall, inflightAtStop>>
  /\ UNCHANGED <<sessVars, crashed, lines>>

\* run, case <-r.ctx.Done(): return, and the deferred close(r.done)
runExit ==
  /\ loopPc = "select"
  /\ ctxDone
  /\ loopPc' = "exited"
  /\ done' = TRUE
  /\ UNCHANGED <<connVars, roomCfg, stalled, rateVars, releaseArg, roomVars, curClient, curMsg, ctxDone, chClosed, stopPc>>
  /\ UNCHANGED <<ghostVars, sessVars, crashed, lines>>

\* a goroutine started by broadcastMessage runs client.sendMessage(msg)
sendMessage(d) ==
  /\ d \in pending
  /\ d.to \notin stalled
  /\ pending' = pending \ {d}
  /\ UNCHANGED <<connVars, roomCfg, stalled, rateVars, releaseArg, clients, history, loopVars, stopVars, ghostVars>>
  /\ UNCHANGED <<sessVars, crashed, lines>>

\* ------------------------------------------------------------------- Stop
\* timestamps of the broadcasts that are submitted, being processed or
\* being delivered
inflight ==
  {outMsg[s].Timestamp : s \in {t \in Sessions : pc[t] = "Broadcast"}}
    \cup (IF loopPc \in {"broadcastMessage", "fanOut"} /\ ~curMsg.IsSystem
            THEN {curMsg.Timestamp} ELSE {})
    \cup {d.msg.Timestamp : d \in {e \in pending : ~e.msg.IsSystem}}

\* Stop: r.cancel()
StopCancel ==
  /\ stopPc = "idle"
  /\ ctxDone' = TRUE
  /\ stopPc' = "waiting"
  /\ inflightAtStop' = inflight
  /\ UNCHANGED <<connVars, roomCfg, stalled, rateVars, releaseArg, roomVars, loopVars, done, chClosed, dispatched, dropped, lateCall>>
  /\ UNCHANGED <<sessVars, crashed, lines>>

\* variant: Stop without `<-r.done`
StopReturnNoWait ==
  /\ stopPc = "waiting"
  /\ chClosed' = TRUE
  /\ stopPc' = "returned"
  /\ UNCHANGED <<connVars, roomCfg, stalled, rateVars, releaseArg, roomVars, loopVars, ctxDone, done, ghostVars>>
  /\ UNCHANGED <<sessVars, crashed, lines>>

\* Stop: <-r.done, the three close calls, return nil
StopReturn ==
  /\ stopPc = "waiting"
  /\ done
  /\ chClosed' = TRUE
  /\ stopPc' = "returned"
  /\ UNCHANGED <<connVars, roomCfg, stalled, rateVars, releaseArg, roomVars, loopVars, ctxDone, done, ghostVars>>
  /\ UNCHANGED <<sessVars, crashed, lines>>

\* ------------------------------------------------------------------- Next
SessionStep(s) ==
  \/ \E n \in 1..NumNicks : ReadNickname(s, n)
  \/ ReserveNickname(s)
  \/ Join(s)
  \/ NewClientRoomFull(s)
  \/ NewClientWelcome(s)
  \/ NewClientWelcomeFailed(s)
  \/ HandleLine(s)
  \/ HandleReturn(s)
  \/ Broadcast(s)
  \/ Leave(s)

run ==
  \/ addClient \/ rejectClient \/ removeClient
  \/ broadcastMessage \/ broadcastFanOut \/ runExit

Next ==
  /\ ~crashed
  /\ \/ \E s \in Sessions : SessionStep(s)
     \/ run
     \/ \E d \in pending : sendMessage(d)
     \/ StopCancel
     \/ StopReturn

Spec == Init /\ [][Next]_vars

\* every goroutine that can take a step eventually takes one
Fairness ==
  /\ \A s \in Sessions : WF_vars(~crashed /\ SessionStep(s))
  /\ WF_vars(~crashed /\ run)
  /\ WF_vars(~crashed /\ StopReturn)

FairSpec == Spec /\ Fairness

\* ------------------------------------------- a room with a stalled peer
\* The peer of session s stops reading and its socket buffers are full:
\* from now on no write to the connection returns.  One connection at most
\* stalls in a run.
Stall(s) ==
  /\ stalled = {}
  /\ pc[s] \notin {"closed", "panic"}
  /\ stalled' = {s}
  /\ UNCHANGED <<connVars, roomCfg, rateVars, releaseArg, roomVars, loopVars, stopVars, ghostVars>>
  /\ UNCHANGED <<sessVars, crashed, lines>>

\* the steps of a session while the room runs
SessionStepRunning(s) ==
  \/ \E n \in 1..NumNicks : ReadNickname(s, n)
  \/ ReserveNickname(s)
  \/ JoinReceived(s)
  \/ NewClientRoomFull(s)
  \/ NewClientWelcome(s)
  \/ NewClientWelcomeFailed(s)
  \/ HandleLine(s)
  \/ HandleReturn(s)
  \/ BroadcastReceived(s)
  \/ LeaveReceived(s)

\* the steps of the loop while the room runs
runRunning ==
  \/ addClient \/ rejectClient \/ removeClient
  \/ broadcastMessage \/ broadcastFanOut

NextStall ==
  \/ \E s \in Sessions : SessionStepRunning(s)
  \/ runRunning
  \/ \E d \in pending : sendMessage(d)
  \/ \E s \in Sessions : Stall(s)

SpecStall == Init /\ [][NextStall]_vars

\* ------------------------------------------- callers of ReleaseNickname
\* what each session holds: nothing, the reservation of a nickname, or the
\* entry of a nickname
Holdings ==
  {h \in [Sessions -> [nick : {0} \cup Nicks, admitted : BOOLEAN]] :
     /\ \A s \in Sessions : h[s].nick = 0 => ~h[s].admitted
     /\ \A s, u \in Sessions : (s # u /\ h[s].nick # 0) => h[s].nick # h[u].nick}

\* a room in which some sessions wait in Join with their reservation and
\* others were admitted and run Handle, every notice delivered
InitRegistry ==
  /\ MaxUsers \in 1..MaxCapacity
  /\ enableHistory = FALSE
  /\ \E h \in Holdings :
       /\ Cardinality({s \in Sessions : h[s].admitted}) <= MaxUsers
       /\ clients = [n \in Nicks |->
                       IF \E s \in Sessions : h[s].nick = n
                         THEN LET s == CHOOSE u \in Sessions : h[u].nick = n
                              IN IF h[s].admitted THEN s ELSE Reserved
                         ELSE Absent]
       /\ pc = [s \in Sessions |->
                  IF h[s].admitted THEN "Handle"
                  ELSE IF h[s].nick # 0 THEN "Join" ELSE "requestNickname"]
       /\ Nickname = [s \in Sessions |-> h[s].nick]
  /\ history = <<>>
  /\ ctxDone = FALSE
  /\ done = FALSE
  /\ chClosed = FALSE
  /\ loopPc = "select"
  /\ curClient = NoClient
  /\ curMsg = NoMsg
  /\ pending = {}
  /\ stopPc = "idle"
  /\ cand = [s \in Sessions |-> 0]
  /\ fullRoomRejection = [s \in Sessions |-> FALSE]
  /\ outMsg = [s \in Sessions |-> NoMsg]
  /\ lines = 0
  /\ crashed = FALSE
  /\ dispatched = {}
  /\ dropped = {}
  /\ lateCall = {}
  /\ inflightAtStop = {}
  /\ stalled = {}
  /\ now = 0
  /\ messageTimestamps = <<>>
  /\ rateLog = <<>>
  /\ releaseArg = 0
  /\ InitConn

\* Room.ReleaseNickname(n), called by a user of the package
ReleaseNickname(n) ==
  /\ clients' = ReleaseNicknameMap(clients, n)
  /\ releaseArg' = n
  /\ UNCHANGED <<connVars, roomCfg, stalled, rateVars, history, pending, loopVars, stopVars, ghostVars>>
  /\ UNCHANGED <<sessVars, crashed, lines>>

NextRegistry == \E n \in Nicks : ReleaseNickname(n)

SpecRegistry == InitRegistry /\ [][NextRegistry]_vars

\* ------------------------------------------------------- checkRateLimit
\* the time between two lines of the client that types
Gaps == {0, 1, TicksPerSecond, RateLimitWindow - 4, RateLimitWindow}

\* c.messageTimestamps after the append of now and the removal of the
\* timestamps that are not after the cutoff
keptTimestamps(ts, t) ==
  SelectSeq(Append(ts, t), LAMBDA x : x > t - RateLimitWindow)

\* variant: the limit is compared one too high
rateLimitExceededOffByOne(ts, t) ==
  Len(keptTimestamps(ts, t)) > MessageRateLimit + 1

\* checkRateLimit returns an error
rateLimitExceeded(ts, t) == Len(keptTimestamps(ts, t)) > MessageRateLimit

\* waitTime := c.messageTimestamps[0].Add(RateLimitWindow).Sub(now)
waitTime(ts, t) == keptTimestamps(ts, t)[1] + RateLimitWindow - t

\* "%.1f" of waitTime.Seconds(): the number of tenths of a second that is
\* printed, the nearest one
FormatTenths(w) == (20 * w + TicksPerSecond) \div (2 * TicksPerSecond)

\* Handle reads a line g ticks after the line before and calls
\* checkRateLimit
checkRateLimit(g) ==
  /\ \E s \in Sessions : pc[s] = "Handle"
  /\ now' = now + g
  /\ messageTimestamps' = keptTimestamps(messageTimestamps, now')
  /\ rateLog' = Append(rateLog,
       [at |-> now',
        ok |-> ~rateLimitExceeded(messageTimestamps, now'),
        wait |-> IF rateLimitExceeded(messageTimestamps, now')
                   THEN FormatTenths(waitTime(messageTimestamps, now'))
                   ELSE 0])
  /\ UNCHANGED <<connVars, roomCfg, stalled, releaseArg, roomVars, loopVars, stopVars, ghostVars>>
  /\ UNCHANGED <<sessVars, crashed, lines>>

NextRate == Len(rateLog) < MaxAttempts /\ \E g \in Gaps : checkRateLimit(g)

\* the time between two lines of a client that sends a burst of lines
BurstGaps == {0, 1}

NextBurst == Len(rateLog) < MaxBurst /\ \E g \in BurstGaps : checkRateLimit(g)

\* ---------------------------------------------------------------- strings
\* A string is a sequence of characters, a character a one-letter string;
\* "U+E9" is a letter outside ASCII, two bytes long in UTF-8.
LowerCase == <<"a", "b", "c", "d", "e", "f", "g", "h", "i", "j", "k", "l", "m",
               "n", "o", "p", "q", "r", "s", "t", "u", "v", "w", "x", "y", "z">>
UpperCase == <<"A", "B", "C", "D", "E", "F", "G", "H", "I", "J", "K", "L", "M",
               "N", "O", "P", "Q", "R", "S", "T", "U", "V", "W", "X", "Y", "Z">>
Digits == {"0", "1", "2", "3", "4", "5", "6", "7", "8", "9"}

\* the lower-case letter of every upper-case letter
lowerOf == [c \in {UpperCase[i] : i \in DOMAIN UpperCase} |->
              LowerCase[CHOOSE i \in DOMAIN UpperCase : UpperCase[i] = c]]
Repeat(c, n) == [i \in 1..n |-> c]

\* len(str): the number of bytes
len(str) == Len(str) + Cardinality({i \in DOMAIN str : str[i] = "U+E9"})

\* unicode.IsSpace for the characters of the model
isSpace(c) == c \in {" ", "\t", "\r", "\n"}

\* strings.TrimSpace: the index of the first character from i on, and of the
\* last one up to i, that is no space
RECURSIVE firstNonSpace(_, _)
firstNonSpace(str, i) ==
  IF i > Len(str) \/ ~isSpace(str[i]) THEN i ELSE firstNonSpace(str, i + 1)

RECURSIVE lastNonSpace(_, _)
lastNonSpace(str, i) ==
  IF i < 1 \/ ~isSpace(str[i]) THEN i ELSE lastNonSpace(str, i - 1)

TrimSpace(str) ==
  SubSeq(str, firstNonSpace(str, 1), lastNonSpace(str, Len(str)))

\* strings.HasPrefix
HasPrefix(str, prefix) ==
  Len(str) >= Len(prefix) /\ SubSeq(str, 1, Len(prefix)) = prefix

\* strings.ToLower
toLower(c) == IF c \in DOMAIN lowerOf THEN lowerOf[c] ELSE c
ToLower(str) == [i \in DOMAIN str |-> toLower(str[i])]

\* strings.SplitN(str, " ", 2)
SplitN(str) ==
  LET at == {i \in DOMAIN str : str[i] = " "}
  IN IF at = {} THEN <<str>>
     ELSE LET k == CHOOSE i \in at : \A j \in at : i <= j
          IN <<SubSeq(str, 1, k - 1), SubSeq(str, k + 1, Len(str))>>

\* ---------------------------------------------------------- nicknames
\* the characters validateNickname lets through
NicknameChars ==
  {LowerCase[i] : i \in DOMAIN LowerCase} \cup {UpperCase[i] : i \in DOMAIN UpperCase}
    \cup Digits \cup {"_", "-"}

NoError == ""

\* variant: validateNickname without the test for "system"
validateNicknameNoReserved(nickname) ==
  IF nickname = <<>> THEN "Nickname cannot be empty. Please try again."
  ELSE IF len(nickname) < MinNicknameLen THEN "Nickname must be at least 2 characters."
  ELSE IF len(nickname) > MaxNicknameLen THEN "Nickname must be at most 20 characters."
  ELSE IF \E i \in DOMAIN nickname : nickname[i] \notin NicknameChars
    THEN "Nickname can only contain letters, numbers, underscores, and hyphens."
  ELSE NoError

\* validateNickname: the error it returns, NoError for nil
validateNickname(nickname) ==
  IF nickname = <<>> THEN "Nickname cannot be empty. Please try again."
  ELSE IF len(nickname) < MinNicknameLen THEN "Nickname must be at least 2 characters."
  ELSE IF len(nickname) > MaxNicknameLen THEN "Nickname must be at most 20 characters."
  ELSE IF ToLower(nickname) = <<"s", "y", "s", "t", "e", "m">>
    THEN "Nickname 'System' is reserved. Please choose another nickname."
  ELSE IF \E i \in DOMAIN nickname : nickname[i] \notin NicknameChars
    THEN "Nickname can only contain letters, numbers, underscores, and hyphens."
  ELSE NoError

\* the lines the peers answer the nickname prompt with
NicknameLines ==
  { <<"\n">>,
    <<"a", "\n">>,
    <<"a", "b", "\n">>,
    <<" ", " ", "a", "b", " ", "\r", "\n">>,
    <<"-", "_", "\n">>,
    <<"a", "b", "c", "d", "e", "f", "g", "h", "i", "j", "0", "1", "2", "3", "4", "5", "6", "_", "-", "Z", "\n">>,
    <<"a", "b", "c", "d", "e", "f", "g", "h", "i", "j", "0", "1", "2", "3", "4", "5", "6", "_", "-", "Z", "9", "\n">>,
    <<"s", "y", "s", "t", "e", "m", "\n">>,
    <<"S", "y", "S", "t", "E", "m", "\r", "\n">>,
    <<"S", "y", "s", "t", "e", "m", "1", "\n">>,
    <<"a", " ", "b", "\n">>,
    <<"a", "!", "b", "\n">>,
    <<"U+E9", "\n">>,
    <<"U+E9", "a", "\n">> }

\* the nicknames these lines ask for
NicknameKeys == {TrimSpace(l) : l \in NicknameLines}

\* a server that has accepted NumSessions connections; the registry is
\* written with the nicknames themselves as its keys
InitNick ==
  /\ MaxUsers \in 1..MaxCapacity
  /\ enableHistory = FALSE
  /\ clients = [k \in NicknameKeys |-> Absent]
  /\ history = <<>>
  /\ ctxDone = FALSE
  /\ done = FALSE
  /\ chClosed = FALSE
  /\ loopPc = "select"
  /\ curClient = NoClient
  /\ curMsg = NoMsg
  /\ pending = {}
  /\ stopPc = "idle"
  /\ pc = [s \in Sessions |-> "requestNickname"]
  /\ cand = [s \in Sessions |-> 0]
  /\ Nickname = [s \in Sessions |-> 0]
  /\ fullRoomRejection = [s \in Sessions |-> FALSE]
  /\ outMsg = [s \in Sessions |-> NoMsg]
  /\ lines = 0
  /\ crashed = FALSE
  /\ dispatched = {}
  /\ dropped = {}
  /\ lateCall = {}
  /\ inflightAtStop = {}
  /\ stalled = {}
  /\ now = 0
  /\ messageTimestamps = <<>>
  /\ rateLog = <<>>
  /\ releaseArg = 0
  /\ InitConn

\* requestNickname: one turn of its loop, from ReadString to the next
\* prompt or to the return
requestNickname(s, line) ==
  /\ pc[s] = "requestNickname"
  /\ s \notin stalled
  /\ readLine' = line
  /\ LET nickname == TrimSpace(line)
         err == validateNickname(nickname)
     IN IF err # NoError
          THEN /\ written' = {[to |-> s, text |-> err],
                              [to |-> s, text |-> "Please enter your nickname: "]}
               /\ UNCHANGED <<clients, Nickname, pc, lateCall>>
          ELSE IF ~ReserveNicknameOk(clients, nickname)
            THEN /\ written' = {[to |-> s, text |-> "Nickname is already taken"],
                                [to |-> s, text |-> "Please enter your nickname: "]}
                 /\ UNCHANGED <<clients, Nickname, pc, lateCall>>
            ELSE /\ written' = {}
                 /\ clients' = ReserveNicknameMap(clients, nickname)
                 /\ Nickname' = [Nickname EXCEPT ![s] = nickname]
                 /\ pc' = [pc EXCEPT ![s] = "Join"]
                 /\ lateCall' = callBegins(s)
  /\ UNCHANGED <<unread, conn, srvVars, writeVars>>
  /\ UNCHANGED <<roomCfg, stalled, rateVars, releaseArg, history, pending, loopVars, stopVars, msgGhosts>>
  /\ UNCHANGED <<cand, fullRoomRejection, outMsg, crashed, lines>>

NextNick == \E s \in Sessions, line \in NicknameLines : requestNickname(s, line)

SpecNick == InitNick /\ [][NextNick]_vars

\* ------------------------------------------------------------------ Handle
\* the lines a peer sends, as ReadString returns them
HandleLines ==
  { <<"\n">>,
    <<" ", "\r", "\n">>,
    <<"h", "i", "\r", "\n">>,
    <<"/", "q", "u", "i", "t", "\n">>,
    <<"/", "Q", "U", "I", "T", "\n">>,
    <<"/", "q", "u", "i", "t", " ", "n", "o", "w", "\n">>,
    <<"/", "q", "u", "i", "t", "x", "\n">>,
    <<"/", "w", "h", "o", "\n">>,
    <<"/", "W", "h", "o", " ", "a", "m", " ", "i", "\n">>,
    <<"/", "h", "e", "l", "p", "\n">>,
    <<"/", "m", "e", "\n">>,
    <<"/", "m", "e", " ", "w", "a", "v", "e", "s", "\n">>,
    <<"/", "x", "y", "z", "\n">>,
    Repeat("a", MaxMessageLength) \o <<"\n">>,
    Repeat("a", MaxMessageLength + 1) \o <<"\n">>,
    Repeat("a", MaxMessageLength - 1) \o <<"U+E9", "\n">> }

\* validateMessageLength returns an error
messageTooLong(message) == len(message) > MaxMessageLength

\* Handle's `!strings.HasPrefix(message, "/quit")`
isRateChecked(message) == ~HasPrefix(message, <<"/", "q", "u", "i", "t">>)

\* variant: /me without the test of its argument
handleCommandCaseAnyMe(message) ==
  LET parts == SplitN(message)
      command == ToLower(parts[1])
  IN CASE command = <<"/", "w", "h", "o">> -> "who"
       [] command = <<"/", "m", "e">> -> "me"
       [] command = <<"/", "h", "e", "l", "p">> -> "help"
       [] command = <<"/", "q", "u", "i", "t">> -> "quit"
       [] OTHER -> "unknown"

\* handleCommand's switch on strings.ToLower(parts[0])
handleCommandCase(message) ==
  LET parts == SplitN(message)
      command == ToLower(parts[1])
  IN CASE command = <<"/", "w", "h", "o">> -> "who"
       [] command = <<"/", "m", "e">> ->
            IF Len(parts) < 2 \/ TrimSpace(parts[2]) = <<>> THEN "usage" ELSE "me"
       [] command = <<"/", "h", "e", "l", "p">> -> "help"
       [] command = <<"/", "q", "u", "i", "t">> -> "quit"
       [] OTHER -> "unknown"

\* What Handle does with a line it has read, the limiter holding ts and
\* the clock showing t: the branch of the loop body that is taken
handleCase(line, ts, t) ==
  LET message == TrimSpace(line)
  IN IF message = <<>> THEN "empty"
     ELSE IF messageTooLong(message) THEN "too long"
     ELSE IF isRateChecked(message) /\ rateLimitExceeded(ts, t) THEN "rate limited"
     ELSE IF HasPrefix(message, <<"/">>) THEN handleCommandCase(message)
     ELSE "chat"

\* what Handle writes to its own connection for a line, before it calls
\* Broadcast or reads again
handleWrites(case) ==
  CASE case = "empty" -> {"clear", "prompt"}
    [] case = "too long" -> {"clear", "Error: message too long", "prompt"}
    [] case = "rate limited" -> {"clear", "Error: rate limit exceeded", "prompt"}
    [] case = "who" -> {"clear", "Users in room", "prompt"}
    [] case = "usage" -> {"clear", "Usage: /me <action>", "prompt"}
    [] case = "help" -> {"clear", "Available commands", "prompt"}
    [] case = "unknown" -> {"clear", "Unknown command", "prompt"}
    [] case = "quit" -> {"clear", "Goodbye!"}
    [] OTHER -> {"clear"}

\* the client whose peer types
Typist == CHOOSE s \in Sessions : \A u \in Sessions : s <= u

\* the time that passes before a line is read; the lines of a run are read
\* within one window, and the limiter counts MaxAttempts of them at most
HandleGaps == {0, RateLimitWindow}

\* the lines a peer sends behind a /quit without waiting for the answer
FollowUps ==
  { <<"h", "i", "\r", "\n">>,
    <<"/", "m", "e", " ", "w", "a", "v", "e", "s", "\n">>,
    <<"/", "w", "h", "o", "\n">>,
    <<"/", "q", "u", "i", "t", "\n">> }

\* what the reader can hold when Client.close runs: the lines the peer
\* sent after the one Handle is working on, MaxBuffered at most
Buffered == UNION {[1..k -> FollowUps] : k \in 0..MaxBuffered}

\* Handle's loop body for client s and a line that ReadString returned g
\* ticks after the line before, up to the call of room.Broadcast or to the
\* end of the body; rest is what the reader holds afterwards
handleLoopBody(s, line, g, rest) ==
  LET message == TrimSpace(line)
      checked == message # <<>> /\ ~messageTooLong(message) /\ isRateChecked(message)
      t == IF checked THEN now + g ELSE now
      case == handleCase(line, messageTimestamps, t)
  IN /\ case \in {"chat", "me"} => lines < MaxLines
     /\ readLine' = line
     /\ t <= RateLimitWindow
     /\ Len(messageTimestamps) < MaxAttempts
     /\ now' = t
     /\ messageTimestamps' = IF checked THEN keptTimestamps(messageTimestamps, t)
                                        ELSE messageTimestamps
     /\ written' = IF conn[s] = "open"
                     THEN {[to |-> s, text |-> w] : w \in handleWrites(case)}
                     ELSE {}
     /\ conn' = IF case = "quit" THEN [conn EXCEPT ![s] = "nil"] ELSE conn
     /\ IF case = "quit" /\ conn[s] = "open"
          THEN \E q \in Buffered : unread' = [unread EXCEPT ![s] = q]
          ELSE unread' = [unread EXCEPT ![s] = rest]
     /\ IF case \in {"chat", "me"}
          THEN /\ lines' = lines + 1
               /\ outMsg' = [outMsg EXCEPT ![s] =
                    Message(Nickname[s],
                            Text(0, IF case = "me" THEN "action" ELSE "text"),
                            FALSE, <<s, lines + 1>>)]
               /\ pc' = [pc EXCEPT ![s] = "Broadcast"]
               /\ lateCall' = callBegins(s)
          ELSE UNCHANGED <<lines, outMsg, pc, lateCall>>

\* Handle: the peer of s sends a line and ReadString returns it
HandleReadLine(s, line, g) ==
  /\ pc[s] = "Handle"
  /\ s = Typist
  /\ s \notin stalled
  /\ conn[s] = "open"
  /\ handleLoopBody(s, line, g, <<>>)
  /\ UNCHANGED <<roomCfg, stalled, rateLog, releaseArg, roomVars, loopVars, stopVars, msgGhosts>>
  /\ UNCHANGED <<cand, Nickname, fullRoomRejection, crashed, srvVars, writeVars>>

\* Handle: Client.close has run and ReadString returns a line the reader
\* still holds
HandleReadBuffered(s, g) ==
  /\ pc[s] = "Handle"
  /\ s = Typist
  /\ s \notin stalled
  /\ conn[s] = "nil"
  /\ unread[s] # <<>>
  /\ handleLoopBody(s, Head(unread[s]), g, Tail(unread[s]))
  /\ UNCHANGED <<roomCfg, stalled, rateLog, releaseArg, roomVars, loopVars, stopVars, msgGhosts>>
  /\ UNCHANGED <<cand, Nickname, fullRoomRejection, crashed, srvVars, writeVars>>

\* Handle: ReadString fails on the closed connection, nothing is left in
\* the reader; Handle returns and the deferred function calls room.Leave
HandleReadError(s) ==
  /\ pc[s] = "Handle"
  /\ conn[s] = "nil"
  /\ unread[s] = <<>>
  /\ pc' = [pc EXCEPT ![s] = "Leave"]
  /\ written' = {}
  /\ lateCall' = callBegins(s)
  /\ UNCHANGED <<unread, conn, readLine, srvVars, writeVars>>
  /\ UNCHANGED <<roomCfg, stalled, rateVars, releaseArg, roomVars, loopVars, stopVars, msgGhosts>>
  /\ UNCHANGED <<cand, Nickname, fullRoomRejection, outMsg, crashed, lines>>

\* the steps of a member of a running room whose peer types
TypistStep(s) ==
  \/ \E line \in HandleLines, g \in HandleGaps : HandleReadLine(s, line, g)
  \/ \E g \in HandleGaps : HandleReadBuffered(s, g)
  \/ HandleReadError(s)
  \/ BroadcastReceived(s)
  \/ LeaveReceived(s)

\* the steps of the loop of a running room that admits nobody
runMembers == removeClient \/ broadcastMessage \/ broadcastFanOut

NextHandle ==
  \/ \E s \in Sessions : TypistStep(s)
  \/ runMembers
  \/ \E d \in pending : sendMessage(d)

\* ------------------------------------------------- a full room that stops
\* the history after the join notices of sessions 1..k
RECURSIVE joinHistory(_)
joinHistory(k) ==
  IF k = 0 THEN <<>> ELSE addToHistory(joinHistory(k - 1), joinNotice(k, k))

\* NewRoom(name, NumSessions, ...) after every session s has reserved
\* nickname s, has been admitted and runs Handle, all join notices delivered
InitDrain ==
  /\ MaxUsers = NumSessions
  /\ enableHistory \in BOOLEAN
  /\ clients = [n \in Nicks |-> IF n \in Sessions THEN n ELSE Absent]
  /\ history = IF enableHistory THEN joinHistory(NumSessions) ELSE <<>>
  /\ ctxDone = FALSE
  /\ done = FALSE
  /\ chClosed = FALSE
  /\ loopPc = "select"
  /\ curClient = NoClient
  /\ curMsg = NoMsg
  /\ pending = {}
  /\ stopPc = "idle"
  /\ pc = [s \in Sessions |-> "Handle"]
  /\ cand = [s \in Sessions |-> 0]
  /\ Nickname = [s \in Sessions |-> s]
  /\ fullRoomRejection = [s \in Sessions |-> FALSE]
  /\ outMsg = [s \in Sessions |-> NoMsg]
  /\ lines = 0
  /\ crashed = FALSE
  /\ dispatched = {}
  /\ dropped = {}
  /\ lateCall = {}
  /\ inflightAtStop = {}
  /\ stalled = {}
  /\ now = 0
  /\ messageTimestamps = <<>>
  /\ rateLog = <<>>
  /\ releaseArg = 0
  /\ InitConn

MemberStep(s) == HandleLine(s) \/ HandleReturn(s) \/ Broadcast(s) \/ Leave(s)

runDrain == removeClient \/ broadcastMessage \/ broadcastFanOut \/ runExit

NextDrain ==
  /\ ~crashed
  /\ \/ \E s \in Sessions : MemberStep(s)
     \/ runDrain
     \/ \E d \in pending : sendMessage(d)
     \/ StopCancel
     \/ StopReturn

SpecDrain == InitDrain /\ [][NextDrain]_vars

\* a client of the full room types, the room does nothing else
SpecRate == InitDrain /\ [][NextRate]_vars

\* a client of the full room sends MaxBurst lines in quick succession
SpecBurst == InitDrain /\ [][NextBurst]_vars

\* the members of a full room, one of them typing
SpecHandle == InitDrain /\ [][NextHandle]_vars

\* the connections that negotiate a nickname, and those of the members
SpecLocal == (InitNick \/ InitDrain) /\ [][NextNick \/ NextHandle]_vars

\* ------------------------------------------- the server and its shutdown
\* the server has started and accepted nothing yet
InitServer ==
  /\ MaxUsers \in 1..MaxCapacity
  /\ enableHistory = FALSE
  /\ clients = [n \in Nicks |-> Absent]
  /\ history = <<>>
  /\ ctxDone = FALSE
  /\ done = FALSE
  /\ chClosed = FALSE
  /\ loopPc = "select"
  /\ curClient = NoClient
  /\ curMsg = NoMsg
  /\ pending = {}
  /\ stopPc = "idle"
  /\ pc = [s \in Sessions |-> "idle"]
  /\ cand = [s \in Sessions |-> 0]
  /\ Nickname = [s \in Sessions |-> 0]
  /\ fullRoomRejection = [s \in Sessions |-> FALSE]
  /\ outMsg = [s \in Sessions |-> NoMsg]
  /\ lines = 0
  /\ crashed = FALSE
  /\ dispatched = {}
  /\ dropped = {}
  /\ lateCall = {}
  /\ inflightAtStop = {}
  /\ stalled = {}
  /\ now = 0
  /\ messageTimestamps = <<>>
  /\ rateLog = <<>>
  /\ releaseArg = 0
  /\ InitConn

\* acceptConnections: Accept returns a connection and handleConnection is
\* started in a goroutine of its own.  The connections are numbered in the
\* order in which they are accepted.
Accept(s) ==
  /\ pc[s] = "idle"
  /\ s <= MaxConnections
  /\ \A r \in 1..(s - 1) : pc[r] # "idle"
  /\ srvPc \in {"idle", "cancelled"}
  /\ pc' = [pc EXCEPT ![s] = "accepted"]
  /\ UNCHANGED <<connVars, roomCfg, stalled, rateVars, releaseArg, roomVars, loopVars, stopVars, ghostVars>>
  /\ UNCHANGED <<cand, Nickname, fullRoomRejection, outMsg, crashed, lines>>

\* handleConnection: the connection is stored in s.connections under s.mu;
\* NewClient then prompts for the nickname and waits in ReadString
Register(s) ==
  /\ pc[s] = "accepted"
  /\ registered' = registered \cup {s}
  /\ pc' = [pc EXCEPT ![s] = "requestNickname"]
  /\ UNCHANGED <<writeVars, unread, conn, written, readLine, srvPc, netClosed, peerGone, closeCalls, closedBy, active>>
  /\ UNCHANGED <<roomCfg, stalled, rateVars, releaseArg, roomVars, loopVars, stopVars, ghostVars>>
  /\ UNCHANGED <<cand, Nickname, fullRoomRejection, outMsg, crashed, lines>>

\* the peer closes its end of the connection
PeerCloses(s) ==
  /\ pc[s] \in {"requestNickname", "Handle"}
  /\ s \notin netClosed \cup peerGone
  /\ peerGone' = peerGone \cup {s}
  /\ UNCHANGED <<writeVars, unread, conn, written, readLine, srvPc, registered, netClosed, closeCalls, closedBy, active>>
  /\ UNCHANGED <<roomCfg, stalled, rateVars, releaseArg, roomVars, loopVars, stopVars, ghostVars>>
  /\ UNCHANGED <<sessVars, crashed, lines>>

\* requestNickname: ReadString fails on a connection that is closed;
\* NewClient closes the connection and returns the error
NicknameReadFailed(s) ==
  /\ pc[s] = "requestNickname"
  /\ s \in netClosed \cup peerGone
  /\ netClosed' = netClosed \cup {s}
  /\ pc' = [pc EXCEPT ![s] = "closed"]
  /\ UNCHANGED <<writeVars, unread, conn, written, readLine, srvPc, registered, peerGone, closeCalls, closedBy, active>>
  /\ UNCHANGED <<roomCfg, stalled, rateVars, releaseArg, roomVars, loopVars, stopVars, ghostVars>>
  /\ UNCHANGED <<cand, Nickname, fullRoomRejection, outMsg, crashed, lines>>

\* NewClient returns the client after the welcome; handleConnection calls
\* Handle, which registers its deferred function and starts the goroutine
\* that waits for ctx.Done()
HandleStart(s) ==
  /\ pc[s] = "checkRejection"
  /\ ~fullRoomRejection[s]
  /\ s \notin netClosed
  /\ pc' = [pc EXCEPT ![s] = "Handle"]
  /\ active' = active \cup {s}
  /\ UNCHANGED <<writeVars, unread, conn, written, readLine, srvPc, registered, netClosed, peerGone, closeCalls, closedBy>>
  /\ UNCHANGED <<roomCfg, stalled, rateVars, releaseArg, roomVars, loopVars, stopVars, ghostVars>>
  /\ UNCHANGED <<cand, Nickname, fullRoomRejection, outMsg, crashed, lines>>

\* variant: close without `if c.conn != nil`
closeAlways(s, who) ==
  /\ closedBy' = [closedBy EXCEPT ![s] = @ \cup {who}]
  /\ closeCalls' = [closeCalls EXCEPT ![s] = @ + 1]
  /\ conn' = [conn EXCEPT ![s] = "nil"]
  /\ netClosed' = netClosed \cup {s}

\* Client.close, called by `who`: under c.mu, the connection is closed and
\* c.conn set to nil unless it is nil already
close(s, who) ==
  /\ closedBy' = [closedBy EXCEPT ![s] = @ \cup {who}]
  /\ IF conn[s] # "nil"
       THEN /\ closeCalls' = [closeCalls EXCEPT ![s] = @ + 1]
            /\ conn' = [conn EXCEPT ![s] = "nil"]
            /\ netClosed' = netClosed \cup {s}
       ELSE UNCHANGED <<closeCalls, conn, netClosed>>

\* handleCommand, case "/quit": "Goodbye!" is written, c.close() is called
\* and the loop goes on to its next read
HandleQuit(s) ==
  /\ pc[s] = "Handle"
  /\ s \in active
  /\ s \notin netClosed \cup peerGone
  /\ close(s, "quit")
  /\ UNCHANGED <<writeVars, unread, written, readLine, srvPc, registered, peerGone, active>>
  /\ UNCHANGED <<roomCfg, stalled, rateVars, releaseArg, roomVars, loopVars, stopVars, ghostVars>>
  /\ UNCHANGED <<sessVars, crashed, lines>>

\* the goroutine Handle started: <-ctx.Done(), then c.close()
Watcher(s) ==
  /\ s \in active
  /\ srvPc # "idle"
  /\ "watcher" \notin closedBy[s]
  /\ close(s, "watcher")
  /\ UNCHANGED <<writeVars, unread, written, readLine, srvPc, registered, peerGone, active>>
  /\ UNCHANGED <<roomCfg, stalled, rateVars, releaseArg, roomVars, loopVars, stopVars, ghostVars>>
  /\ UNCHANGED <<sessVars, crashed, lines>>

\* Handle: ReadString returns an error that is not a timeout (the
\* connection is closed, or the peer has gone) and Handle returns
HandleReadFailed(s) ==
  /\ s \in active
  /\ s \in netClosed \cup peerGone
  /\ HandleReturn(s)

\* handleConnection returns: Handle's deferred c.close() if Handle ran,
\* then the deferred delete from s.connections and conn.Close()
ConnectionDone(s) ==
  /\ pc[s] \in {"closed", "errRoomFull"}
  /\ s \in registered
  /\ registered' = registered \ {s}
  /\ IF s \in active
       THEN close(s, "defer")
       ELSE /\ netClosed' = netClosed \cup {s}
            /\ UNCHANGED <<closeCalls, closedBy, conn>>
  /\ UNCHANGED <<writeVars, unread, written, readLine, srvPc, peerGone, active>>
  /\ UNCHANGED <<roomCfg, stalled, rateVars, releaseArg, roomVars, loopVars, stopVars, ghostVars>>
  /\ UNCHANGED <<sessVars, crashed, lines>>

\* Server.Stop: s.cancel()
ServerCancel ==
  /\ srvPc = "idle"
  /\ srvPc' = "cancelled"
  /\ UNCHANGED <<writeVars, unread, conn, written, readLine, registered, netClosed, peerGone, closeCalls, closedBy, active>>
  /\ UNCHANGED <<roomCfg, stalled, rateVars, releaseArg, roomVars, loopVars, stopVars, ghostVars>>
  /\ UNCHANGED <<sessVars, crashed, lines>>

\* Server.Stop: s.listener.Close()
ServerCloseListener ==
  /\ srvPc = "cancelled"
  /\ srvPc' = "listenerClosed"
  /\ UNCHANGED <<writeVars, unread, conn, written, readLine, registered, netClosed, peerGone, closeCalls, closedBy, active>>
  /\ UNCHANGED <<roomCfg, stalled, rateVars, releaseArg, roomVars, loopVars, stopVars, ghostVars>>
  /\ UNCHANGED <<sessVars, crashed, lines>>

\* Server.Stop: under s.mu, conn.Close() for every connection in
\* s.connections; s.chatRoom.Stop() is called next
ServerCloseConnections ==
  /\ srvPc = "listenerClosed"
  /\ srvPc' = "chatRoom.Stop"
  /\ netClosed' = netClosed \cup registered
  /\ UNCHANGED <<writeVars, unread, conn, written, readLine, registered, peerGone, closeCalls, closedBy, active>>
  /\ UNCHANGED <<roomCfg, stalled, rateVars, releaseArg, roomVars, loopVars, stopVars, ghostVars>>
  /\ UNCHANGED <<sessVars, crashed, lines>>

\* Server.Stop: the call of s.chatRoom.Stop()
ServerStopRoom ==
  /\ srvPc = "chatRoom.Stop"
  /\ StopCancel \/ StopReturn

\* the steps of the goroutine that serves connection s
ConnectionStep(s) ==
  \/ Register(s)
  \/ NicknameReadFailed(s)
  \/ ReserveNickname(s)
  \/ Join(s)
  \/ NewClientRoomFull(s)
  \/ HandleStart(s)
  \/ NewClientWelcomeFailed(s)
  \/ HandleReadFailed(s)
  \/ Leave(s)
  \/ ConnectionDone(s)

\* what the peer of connection s does, if it does anything: it connects,
\* types nicknames and /quit, and hangs up
PeerStep(s) ==
  \/ Accept(s)
  \/ \E n \in 1..NumNicks : ReadNickname(s, n)
  \/ HandleQuit(s)
  \/ PeerCloses(s)

\* Server.Stop once it is called
ServerStop == ServerCloseListener \/ ServerCloseConnections \/ ServerStopRoom

NextServer ==
  /\ ~crashed
  /\ \/ \E s \in Sessions : ConnectionStep(s) \/ PeerStep(s) \/ Watcher(s)
     \/ run
     \/ \E d \in pending : sendMessage(d)
     \/ ServerCancel
     \/ ServerStop

SpecServer == InitServer /\ [][NextServer]_vars

\* every goroutine of the server that can take a step eventually takes
\* one; the peers and the signal that makes main call Stop are free
FairnessServer ==
  /\ \A s \in Sessions : WF_vars(~crashed /\ ConnectionStep(s))
  /\ \A s \in Sessions : WF_vars(~crashed /\ Watcher(s))
  /\ WF_vars(~crashed /\ run)
  /\ WF_vars(~crashed /\ (\E d \in pending : sendMessage(d)))
  /\ WF_vars(~crashed /\ ServerStop)

FairSpecServer == SpecServer /\ FairnessServer

\* ------------------------------------- members leave, a newcomer arrives
\* NewRoom after every session but the last has reserved its nickname, has
\* been admitted and runs Handle; the last connection has just been
\* accepted and is asked for its nickname
InitTurnover ==
  /\ MaxUsers \in (NumSessions - 1)..NumSessions
  /\ enableHistory = FALSE
  /\ clients = [n \in Nicks |-> IF n \in 1..(NumSessions - 1) THEN n ELSE Absent]
  /\ history = <<>>
  /\ ctxDone = FALSE
  /\ done = FALSE
  /\ chClosed = FALSE
  /\ loopPc = "select"
  /\ curClient = NoClient
  /\ curMsg = NoMsg
  /\ pending = {}
  /\ stopPc = "idle"
  /\ pc = [s \in Sessions |-> IF s < NumSessions THEN "Handle" ELSE "requestNickname"]
  /\ cand = [s \in Sessions |-> 0]
  /\ Nickname = [s \in Sessions |-> IF s < NumSessions THEN s ELSE 0]
  /\ fullRoomRejection = [s \in Sessions |-> FALSE]
  /\ outMsg = [s \in Sessions |-> NoMsg]
  /\ lines = 0
  /\ crashed = FALSE
  /\ dispatched = {}
  /\ dropped = {}
  /\ lateCall = {}
  /\ inflightAtStop = {}
  /\ stalled = {}
  /\ now = 0
  /\ messageTimestamps = <<>>
  /\ rateLog = <<>>
  /\ releaseArg = 0
  /\ InitConn

\* the steps of a session: the room has a place for the newcomer as soon
\* as a nickname is free for it
TurnoverStep(s) ==
  \/ \E n \in 1..NumNicks : ReadNickname(s, n)
  \/ ReserveNickname(s)
  \/ Join(s)
  \/ NewClientWelcome(s)
  \/ NewClientWelcomeFailed(s)
  \/ HandleReturn(s)
  \/ Leave(s)

runTurnover ==
  \/ addClient \/ removeClient
  \/ broadcastMessage \/ broadcastFanOut \/ runExit

NextTurnover ==
  /\ ~crashed
  /\ \/ \E s \in Sessions : TurnoverStep(s)
     \/ runTurnover
     \/ \E d \in pending : sendMessage(d)
     \/ StopCancel
     \/ StopReturn

SpecTurnover == InitTurnover /\ [][NextTurnover]_vars

\* every goroutine that can take a step eventually takes one
FairnessTurnover ==
  /\ \A s \in Sessions : WF_vars(~crashed /\ TurnoverStep(s))
  /\ WF_vars(~crashed /\ runTurnover)
  /\ WF_vars(~crashed /\ StopReturn)

FairSpecTurnover == SpecTurnover /\ FairnessTurnover

\* ---------------------------------------------- the writes to one client
\* variant: the writers do not wait for c.mu
lockIgnored(m) == TRUE

\* c.mu.Lock() returns when nobody holds the mutex
lock(m) == m = Unlocked

\* write and sendMessage: c.mu.Lock(), defer c.mu.Unlock()
writeLock(w) ==
  /\ wpc[w] = "idle"
  /\ Len(wire) + Len(writer) < 2 * MaxWrites
  /\ lock(mu)
  /\ mu' = w
  /\ wpc' = [wpc EXCEPT ![w] = "check"]
  /\ UNCHANGED <<writer, wire>>
  /\ UNCHANGED <<unread, conn, written, readLine, srvVars>>
  /\ UNCHANGED <<roomCfg, stalled, rateVars, releaseArg, roomVars, loopVars, stopVars, ghostVars>>
  /\ UNCHANGED <<sessVars, crashed, lines>>

\* variant: write and sendMessage without `if c.conn == nil`
writeCheckSkipped(w) ==
  /\ wpc[w] = "check"
  /\ wpc' = [wpc EXCEPT ![w] = "WriteString"]
  /\ UNCHANGED <<mu, writer, wire>>
  /\ UNCHANGED <<unread, conn, written, readLine, srvVars>>
  /\ UNCHANGED <<roomCfg, stalled, rateVars, releaseArg, roomVars, loopVars, stopVars, ghostVars>>
  /\ UNCHANGED <<sessVars, crashed, lines>>

\* write and sendMessage: `if c.conn == nil` returns, and the deferred
\* Unlock runs
writeCheck(w) ==
  /\ wpc[w] = "check"
  /\ IF conn[Typist] = "nil"
       THEN /\ wpc' = [wpc EXCEPT ![w] = "idle"]
            /\ mu' = Unlocked
       ELSE /\ wpc' = [wpc EXCEPT ![w] = "WriteString"]
            /\ mu' = mu
  /\ UNCHANGED <<writer, wire>>
  /\ UNCHANGED <<unread, conn, written, readLine, srvVars>>
  /\ UNCHANGED <<roomCfg, stalled, rateVars, releaseArg, roomVars, loopVars, stopVars, ghostVars>>
  /\ UNCHANGED <<sessVars, crashed, lines>>

\* c.writer.WriteString copies the message into the buffer; a message
\* longer than the room left in the buffer is copied in two parts
writeString(w) ==
  /\ wpc[w] \in {"WriteString", "copy"}
  /\ IF wpc[w] = "WriteString"
       THEN /\ writer' = Append(writer, <<w, "head">>)
            /\ wpc' = [wpc EXCEPT ![w] = "copy"]
       ELSE /\ writer' = Append(writer, <<w, "tail">>)
            /\ wpc' = [wpc EXCEPT ![w] = "Flush"]
  /\ UNCHANGED <<mu, wire>>
  /\ UNCHANGED <<unread, conn, written, readLine, srvVars>>
  /\ UNCHANGED <<roomCfg, stalled, rateVars, releaseArg, roomVars, loopVars, stopVars, ghostVars>>
  /\ UNCHANGED <<sessVars, crashed, lines>>

\* c.writer.Flush() hands the buffer to the connection
writeFlush(w) ==
  /\ wpc[w] = "Flush"
  /\ wire' = wire \o writer
  /\ writer' = <<>>
  /\ wpc' = [wpc EXCEPT ![w] = "Unlock"]
  /\ UNCHANGED mu
  /\ UNCHANGED <<unread, conn, written, readLine, srvVars>>
  /\ UNCHANGED <<roomCfg, stalled, rateVars, releaseArg, roomVars, loopVars, stopVars, ghostVars>>
  /\ UNCHANGED <<sessVars, crashed, lines>>

\* the deferred c.mu.Unlock() of write and sendMessage
writeUnlock(w) ==
  /\ wpc[w] = "Unlock"
  /\ mu' = Unlocked
  /\ wpc' = [wpc EXCEPT ![w] = "idle"]
  /\ UNCHANGED <<writer, wire>>
  /\ UNCHANGED <<unread, conn, written, readLine, srvVars>>
  /\ UNCHANGED <<roomCfg, stalled, rateVars, releaseArg, roomVars, loopVars, stopVars, ghostVars>>
  /\ UNCHANGED <<sessVars, crashed, lines>>

\* Client.close of the watched client, called on ctx.Done(): the whole of
\* it runs under c.mu
writeClose ==
  /\ lock(mu)
  /\ "watcher" \notin closedBy[Typist]
  /\ close(Typist, "watcher")
  /\ UNCHANGED <<writeVars, unread, written, readLine, srvPc, registered, peerGone, active>>
  /\ UNCHANGED <<roomCfg, stalled, rateVars, releaseArg, roomVars, loopVars, stopVars, ghostVars>>
  /\ UNCHANGED <<sessVars, crashed, lines>>

NextWrite ==
  \/ \E w \in Writers :
       writeLock(w) \/ writeCheck(w) \/ writeString(w) \/ writeFlush(w) \/ writeUnlock(w)
  \/ writeClose

\* a member of the room, the goroutines that write to it and the one that
\* closes it
SpecWrite == InitDrain /\ [][NextWrite]_vars

\* ------------------------------------------------------------ properties
\* a session past NewClient whose Handle is running
Active(s) == pc[s] \in {"Handle", "Broadcast"}

\* a session is in a Join, Leave or Broadcast call
Submitting(s) == pc[s] \in {"Join", "Leave", "Broadcast"}

\* the number of entries that hold a client
Occupied == Cardinality({n \in Nicks : clients[n] \in Sessions})

\* the loop has decided to reject s, or has told it so
Rejected(s) == fullRoomRejection[s] \/ (loopPc = "reject" /\ curClient = s)

\* the step is the locked part of addClient
AddClientStep == loopPc = "addClient" /\ loopPc' # "addClient"

\* C1: a ReserveNickname call returns true exactly when the nickname has no
\* entry at that instant; on success the entry is a reservation, so that
\* no other call for the nickname succeeds; a failed call changes nothing.
C1_ReserveAtomic ==
  [][\A s \in Sessions :
       (pc[s] = "ReserveNickname" /\ pc'[s] # "ReserveNickname") =>
          /\ (pc'[s] = "Join") <=> (clients[cand[s]] = Absent)
          /\ (pc'[s] = "Join") =>
                /\ clients' = [clients EXCEPT ![cand[s]] = Reserved]
                /\ Nickname'[s] = cand[s]
          /\ (pc'[s] # "Join") => (clients' = clients /\ pc'[s] = "requestNickname")
    ]_vars

\* C1 witness: one session holds the reservation while another session's
\* call for the same nickname is about to fail
C1_Witness ==
  \E s, t \in Sessions :
    /\ s # t
    /\ pc[s] = "Join" /\ clients[Nickname[s]] = Reserved
    /\ pc[t] = "ReserveNickname" /\ cand[t] = Nickname[s]

\* C2: no two sessions whose message loops are running have the same
\* nickname.
C2_OneLiveMemberPerNickname ==
  \A s, t \in Sessions :
    (s # t /\ Active(s) /\ Active(t)) => Nickname[s] # Nickname[t]

\* C3: the entries holding a client never number more than MaxUsers, and
\* an admission processed while MaxUsers entries hold a client is rejected.
C3_Capacity ==
  /\ [](Occupied <= MaxUsers)
  /\ [][(AddClientStep /\ Occupied = MaxUsers) =>
          (loopPc' = "reject" /\ Occupied' <= Occupied)]_vars

\* C3 witness: the loop rejects a join while the room holds MaxUsers clients
C3_Witness == loopPc = "reject" /\ Occupied = MaxUsers

\* C4: a session the loop rejected as room-full never gets past NewClient's
\* flag test: no welcome, no Handle, no Leave, no Broadcast.
C4_RejectedNeverActive ==
  \A s \in Sessions : Rejected(s) => pc[s] \in {"checkRejection", "errRoomFull"}

\* C5: a room-full rejection deletes the entry of the rejected nickname and
\* touches no other entry, so that a ReserveNickname for it succeeds.
C5_RejectionReleases ==
  [][(AddClientStep /\ loopPc' = "reject") =>
        /\ clients' = [clients EXCEPT ![Nickname[curClient]] = Absent]
        /\ ReserveNicknameOk(clients', Nickname[curClient])]_vars

\* C5 witness: after the rejection of s another session has reserved the
\* nickname of s
C5_Witness ==
  \E s, t \in Sessions :
    /\ s # t
    /\ fullRoomRejection[s] /\ pc[s] = "checkRejection"
    /\ pc[t] = "Join" /\ Nickname[t] = Nickname[s]
    /\ clients[Nickname[t]] = Reserved

\* C6: when the loop processes a join it admits the client if and only if
\* fewer than MaxUsers entries hold a client at that moment, reservations
\* not counted; an admission into an entry that held no client takes one
\* slot, so the join processed next for the last slot is rejected.
C6_FullDecision ==
  [][AddClientStep =>
        LET c == curClient
            n == Nickname[curClient]
        IN /\ (Occupied < MaxUsers) <=> (loopPc' = "broadcastMessage" /\ clients'[n] = c)
           /\ (Occupied >= MaxUsers) <=> (loopPc' = "reject")
           /\ (loopPc' = "broadcastMessage" /\ clients[n] \notin Sessions) =>
                 Occupied' = Occupied + 1]_vars

\* C6 witness: a client was admitted though the entries, reservations
\* included, number more than MaxUsers
C6_Witness ==
  /\ loopPc = "broadcastMessage"
  /\ curMsg.Content[2] = "has joined the room"
  /\ Cardinality({n \in Nicks : clients[n] # Absent}) > MaxUsers
  /\ Occupied = MaxUsers

\* C7: a Join, Leave or Broadcast call that began after Stop returned can
\* always return (the cancellation case is ready), does not panic, and its
\* return changes neither the clients nor the history.
C7_CallsAfterStopAreNoOps ==
  [][\A s \in lateCall :
        (Submitting(s) /\ pc'[s] # pc[s]) =>
           /\ ctxDone
           /\ pc'[s] # "panic"
           /\ clients' = clients
           /\ history' = history]_vars

\* C8: Stop cancels first and returns only when the loop has exited and
\* closed done; from then on the loop processes nothing.
C8_StopTwoPhase ==
  [][/\ (stopPc' = "waiting") => ctxDone'
     /\ (stopPc' = "returned") => (ctxDone' /\ done' /\ loopPc' = "exited")
     /\ (stopPc = "returned") =>
           (loopVars' = loopVars /\ history' = history /\ pending' \subseteq pending
            /\ Occupied' = Occupied)]_vars

\* C8 witness: Stop has returned while a session still has a request to
\* submit
C8_Witness == stopPc = "returned" /\ \E s \in Sessions : Submitting(s)

\* the message is in the history buffer
InHistory(ts) == \E i \in 1..Len(history) : history[i].Timestamp = ts

\* the fan-out of the message has run and none of its goroutines is left
DeliveredToAll(ts) ==
  ts \in dispatched /\ \A d \in pending : d.msg.Timestamp # ts

\* the message is still with the session that submits it: its Broadcast
\* call waits, or has panicked on the closed channel
Waiting(ts) ==
  \E s \in Sessions :
    pc[s] \in {"Broadcast", "panic"} /\ outMsg[s].Timestamp = ts

Returned(s) == ~Submitting(s) /\ pc[s] # "panic"

\* C10: once Stop has been called, a session that is in a Join, Leave or
\* Broadcast call eventually is back from it.
C10_CallsReturn ==
  \A s \in Sessions : (ctxDone /\ Submitting(s)) ~> Returned(s)

\* ------------------------------------------------- history and fan-out
\* the newest n elements of a sequence, in their order
Newest(seq, n) ==
  LET k == IF Len(seq) < n THEN Len(seq) ELSE n
  IN [i \in 1..k |-> seq[Len(seq) - k + i]]

\* the step is broadcastMessage's history part / its fan-out part
HistoryStep == loopPc = "broadcastMessage" /\ loopPc' # loopPc
FanOutStep == loopPc = "fanOut" /\ loopPc' # loopPc

\* the clients that hold an entry and whose connection is open
OpenMembers ==
  {clients[n] : n \in {k \in Nicks : clients[k] \in Sessions
                                       /\ pc[clients[k]] # "closed"}}

\* C11: the history never holds more than historySize messages; with
\* history enabled every message the loop accepts (chat line, join or
\* leave notice) is appended and the buffer is then the newest historySize
\* of the messages accepted so far, in the order of acceptance; no other
\* step changes the history.
C11_HistoryNewest ==
  /\ [](Len(history) <= historySize)
  /\ [][IF HistoryStep /\ enableHistory
          THEN history' = Newest(Append(history, curMsg), historySize)
          ELSE history' = history]_vars

\* C11 witness: the buffer is full and its oldest message is a leave
\* notice while the room runs: the join notices accepted before it are gone
C11_Witness ==
  /\ enableHistory
  /\ ~ctxDone
  /\ Len(history) = historySize
  /\ history[1].Timestamp[2] = -1

\* C12: broadcastMessage appends the message to the history (when enabled)
\* in a step that starts no delivery; deliveries are started only by its
\* fan-out step, when the message is the newest of the history, and they
\* go to exactly the clients that hold an entry at that step (connection
\* open), the sender included.
C12_HistoryThenFanOut ==
  [][/\ HistoryStep =>
          /\ pending' = pending
          /\ enableHistory => history'[Len(history')] = curMsg
     /\ FanOutStep =>
          /\ enableHistory => history[Len(history)] = curMsg
          /\ pending' = pending \cup {[to |-> c, msg |-> curMsg] : c \in OpenMembers}
     /\ ~FanOutStep => pending' \subseteq pending]_vars

\* C12 witness: a chat line is being delivered to its sender, it is in the
\* history, and a reservation exists that got no delivery
C12_Witness ==
  /\ enableHistory
  /\ \E n \in Nicks : clients[n] = Reserved
  /\ \E d \in pending :
       /\ ~d.msg.IsSystem
       /\ d.to = d.msg.Timestamp[1]
       /\ InHistory(d.msg.Timestamp)
       /\ \A e \in pending : e.to \in Sessions

\* ------------------------------------------------------- a stalled member
\* the client holds an entry of the registry
IsMember(m) == \E n \in Nicks : clients[n] = m

\* C13: while a member's connection is stalled, the loop is never blocked
\* (a handler it is in can take its next step, and at its select it can
\* receive from any session that submits a join, leave or broadcast) and
\* every delivery addressed to another client can complete.
C13_StalledMemberDelaysNobody ==
  \A m \in stalled : IsMember(m) =>
    /\ loopPc # "select" => ENABLED runRunning
    /\ loopPc = "select" =>
         \A s \in Sessions :
           /\ pc[s] = "Join" => ENABLED JoinReceived(s)
           /\ pc[s] = "Leave" => ENABLED LeaveReceived(s)
           /\ pc[s] = "Broadcast" => ENABLED BroadcastReceived(s)
    /\ \A d \in pending : d.to # m => ENABLED sendMessage(d)

\* C13 witness: a delivery to a stalled member has not completed, and the
\* loop is fanning out a later message
C13_Witness ==
  \E m \in stalled : \E d \in pending :
    /\ IsMember(m)
    /\ d.to = m
    /\ loopPc = "fanOut"
    /\ curMsg # d.msg

\* ------------------------------------------------- who writes, and when
\* the step is a step of a handler of the loop
LoopStep == loopPc \notin {"select", "exited"} /\ loopPc' # loopPc

\* the step is session s calling Room.ReserveNickname with success for n
ReserveStep(s, n) ==
  pc[s] = "ReserveNickname" /\ pc'[s] = "Join" /\ cand[s] = n

ReceiveStep(s) == Submitting(s) /\ pc'[s] # pc[s] /\ loopPc' # loopPc

\* the place of a message among the messages about one session: its join
\* notice, its chat lines in the order typed, its leave notice
Place(ts) ==
  IF ts[2] = 0 THEN 0 ELSE IF ts[2] = -1 THEN MaxLines + 1 ELSE ts[2]

\* C15: the loop receives a request only at its select, having finished
\* the one before, and what it then handles is that request; the history
\* grows at its end only, so its order is the order of acceptance; and the
\* messages of one session are in it in the order join notice, chat lines
\* as submitted, leave notice.
C15_OneOrder ==
  /\ [](\A i, j \in 1..Len(history) :
          (i < j /\ history[i].Timestamp[1] = history[j].Timestamp[1]) =>
             Place(history[i].Timestamp) < Place(history[j].Timestamp))
  /\ [][/\ \A s \in Sessions :
             ReceiveStep(s) =>
               /\ loopPc = "select"
               /\ pc[s] = "Join" => (loopPc' = "addClient" /\ curClient' = s)
               /\ pc[s] = "Leave" => (loopPc' = "removeClient" /\ curClient' = s)
               /\ pc[s] = "Broadcast" =>
                    (loopPc' = "broadcastMessage" /\ curMsg' = outMsg[s])
        /\ history' # history =>
             /\ history'[Len(history')] = curMsg
             /\ \E k \in 0..Len(history) :
                  SubSeq(history', 1, Len(history') - 1)
                    = SubSeq(history, k + 1, Len(history))]_vars

\* C15 witness: the history holds a chat line of a session and, after it,
\* the leave notice of that session
C15_Witness ==
  \E i, j \in 1..Len(history) :
    /\ i < j
    /\ ~history[i].IsSystem
    /\ history[j].Timestamp = <<history[i].Timestamp[1], -1>>

\* ---------------------------------------------------------------- removal
\* the step is the locked part of removeClient
RemoveStep == loopPc = "removeClient" /\ loopPc' # loopPc

\* C16: removeClient for a nickname that has no entry changes neither the
\* registry nor the history, starts no delivery, builds no notice, does
\* not panic, and the loop is back at its select.
C16_RemoveIdempotent ==
  [][(RemoveStep /\ clients[Nickname[curClient]] = Absent) =>
        /\ clients' = clients
        /\ history' = history
        /\ pending' = pending
        /\ curMsg' = NoMsg
        /\ loopPc' = "select"
        /\ ~crashed']_vars

\* C16 witness: the loop has processed the leave of a session whose entry
\* was gone (deleted when its admission was rejected): no leave notice of
\* it exists although no notice was evicted from the history
C16_Witness ==
  \E s \in Sessions :
    /\ pc[s] = "closed" /\ fullRoomRejection[s] /\ Nickname[s] = 0
    /\ loopPc = "select"
    /\ enableHistory /\ Len(history) < historySize
    /\ \A i \in 1..Len(history) : history[i].Timestamp # <<s, -1>>
    /\ \A d \in pending : d.msg.Timestamp # <<s, -1>>

\* ------------------------------------------------------- ReleaseNickname
\* C17: ReleaseNickname(n) removes the entry of n when it is a reservation
\* and otherwise changes nothing; the entries of the other nicknames stay
\* as they are.
C17_ReleaseOnlyReserved ==
  [][LET n == releaseArg'
     IN clients' = IF clients[n] = Reserved
                     THEN [clients EXCEPT ![n] = Absent]
                     ELSE clients]_vars

\* C17 witness: a reservation was released while another nickname is
\* occupied
C17_Witness ==
  /\ releaseArg \in Nicks
  /\ clients[releaseArg] = Absent
  /\ \E s \in Sessions : pc[s] = "Join" /\ Nickname[s] = releaseArg
  /\ \E n \in Nicks : clients[n] \in Sessions

\* ------------------------------------------------- the life of an entry
\* C18: the entry of a nickname changes only from absent to reserved (a
\* successful ReserveNickname), from reserved to occupied by the session
\* that holds the reservation (admission), from reserved to absent
\* (rejection) and from occupied to absent (the leave of its occupant).
C18_EntryLifeCycle ==
  [][\A n \in Nicks :
       clients'[n] # clients[n] =>
         \/ /\ clients[n] = Absent /\ clients'[n] = Reserved
            /\ \E s \in Sessions : ReserveStep(s, n)
         \/ /\ clients[n] = Reserved /\ clients'[n] \in Sessions
            /\ AddClientStep /\ clients'[n] = curClient
            /\ Nickname[curClient] = n
         \/ /\ clients[n] = Reserved /\ clients'[n] = Absent
            /\ AddClientStep /\ loopPc' = "reject"
         \/ /\ clients[n] \in Sessions /\ clients'[n] = Absent
            /\ RemoveStep /\ curClient = clients[n]]_vars

\* ------------------------------------------------------------ /who
\* GetUserList: the keys of r.clients (in the order the map yields them)
GetUserList(cl) == {n \in Nicks : cl[n] # Absent}

\* C19: whenever a member can type /who, the list GetUserList returns is
\* the set of occupied nicknames, so it has at most MaxUsers elements.
C19_WhoListsMembers ==
  (\E s \in Sessions : pc[s] = "Handle") =>
    /\ GetUserList(clients) = {n \in Nicks : clients[n] \in Sessions}
    /\ Cardinality(GetUserList(clients)) <= MaxUsers

\* ------------------------------------------------------------ rate limit
\* C20: when the first six lines of a client fall within one window, the
\* first five are accepted and the sixth is rejected with a reported wait
\* above 0 and of at most the window; a seventh line a full window after
\* the sixth is accepted.
C20_SixthRejected ==
  (Len(rateLog) >= 6 /\ rateLog[6].at - rateLog[1].at < RateLimitWindow) =>
    /\ \A i \in 1..5 : rateLog[i].ok
    /\ ~rateLog[6].ok
    /\ rateLog[6].wait > 0
    /\ rateLog[6].wait <= 10 * (RateLimitWindow \div TicksPerSecond)
    /\ (Len(rateLog) >= 7 /\ rateLog[7].at >= rateLog[6].at + RateLimitWindow)
         => rateLog[7].ok

\* the checks of the log that are newer than t - RateLimitWindow, rejected
\* ones included, oldest first
Recorded(log, t) ==
  LET newer == SelectSeq(log, LAMBDA e : e.at > t - RateLimitWindow)
  IN [i \in DOMAIN newer |-> newer[i].at]

\* the accepted checks of the log in the window that starts at time t
AcceptedFrom(log, t) ==
  {j \in DOMAIN log : log[j].ok /\ log[j].at >= t /\ log[j].at < t + RateLimitWindow}

ReadStep(s) ==
  /\ s = Typist
  /\ pc[s] = "Handle"
  /\ pc'[s] \in {"Handle", "Broadcast"}
  /\ <<readLine, written, rateVars, unread[s], conn[s], outMsg[s]>>'
       # <<readLine, written, rateVars, unread[s], conn[s], outMsg[s]>>

\* the step leaves the room as it is and submits nothing to it
NothingForTheRoom(s) ==
  /\ pc' = pc
  /\ outMsg' = outMsg
  /\ UNCHANGED <<clients, history, pending, loopVars>>

\* the texts the step wrote
Texts(w) == {e.text : e \in w}

\* C22: a line of more than MaxMessageLength characters is answered with
\* the length error on the connection of its sender only, submits nothing
\* to the room, leaves the history and the timestamps of the limiter as
\* they are; a line of exactly MaxMessageLength characters does not get
\* the length error.
C22_LengthBeforeRate ==
  [][\A s \in Sessions : ReadStep(s) =>
       LET message == TrimSpace(readLine')
       IN /\ Len(message) > MaxMessageLength =>
               /\ "Error: message too long" \in Texts(written')
               /\ \A e \in written' : e.to = s
               /\ NothingForTheRoom(s)
               /\ messageTimestamps' = messageTimestamps
          /\ Len(message) = MaxMessageLength =>
               "Error: message too long" \notin Texts(written')]_vars

\* handleCommand takes the line for a quit command
isQuitCommand(message) ==
  ToLower(SplitN(message)[1]) = <<"/", "q", "u", "i", "t">>

\* C23: a line that is not empty and not too long leaves the timestamps of
\* the limiter as they are, and is not rejected for its rate, if and only
\* if it is a quit command, the keyword in any case.
C23_OnlyQuitBypasses ==
  [][\A s \in Sessions : ReadStep(s) =>
       LET message == TrimSpace(readLine')
       IN (message # <<>> /\ len(message) <= MaxMessageLength) =>
            /\ isQuitCommand(message) <=> messageTimestamps' = messageTimestamps
            /\ isQuitCommand(message) =>
                 "Error: rate limit exceeded" \notin Texts(written')]_vars

\* C24: once /quit has closed the connection of a session, the session
\* submits no broadcast and runs no command: the lines its reader still
\* holds are not worked on.
C24_QuitIsTerminal ==
  /\ [](\A s \in Sessions : conn[s] = "nil" => pc[s] # "Broadcast")
  /\ [][\A s \in Sessions :
          (conn[s] = "nil" /\ ReadStep(s)) =>
             handleCase(readLine', messageTimestamps, now')
               \notin {"chat", "me", "who", "help", "usage", "unknown", "quit"}]_vars

\* ------------------------------------------------------------ nicknames
\* a nickname as the room wants it
ValidNickname(str) ==
  /\ Len(str) >= MinNicknameLen
  /\ Len(str) <= MaxNicknameLen
  /\ \A i \in DOMAIN str : str[i] \in NicknameChars
  /\ ToLower(str) # <<"s", "y", "s", "t", "e", "m">>

\* session s takes a turn of requestNickname's loop
NickStep(s) ==
  /\ pc[s] = "requestNickname"
  /\ <<readLine, written, pc[s]>>' # <<readLine, written, pc[s]>>
  /\ pc'[s] = pc[s] => \E e \in written' : e.to = s

\* C30: a candidate is passed to ReserveNickname, and not answered with an
\* error of validateNickname, if and only if it has 2 to 20 characters, all
\* of them ASCII letters, digits, underscores or hyphens, and is not
\* "system" in any case; every key of the registry is such a nickname.
C30_ValidNicknames ==
  /\ [](\A k \in DOMAIN clients : clients[k] # Absent => ValidNickname(k))
  /\ [][\A s \in Sessions : NickStep(s) =>
          (ValidNickname(TrimSpace(readLine'))
             <=> \/ pc'[s] = "Join" /\ clients'[TrimSpace(readLine')] = Reserved
                 \/ "Nickname is already taken" \in Texts(written'))]_vars

\* C30 witness: the longest and a shortest valid nickname are reserved and
\* a third session was refused "system"
C30_Witness ==
  /\ \E k \in DOMAIN clients : Len(k) = MaxNicknameLen /\ clients[k] = Reserved
  /\ \E k \in DOMAIN clients : Len(k) = MinNicknameLen /\ clients[k] = Reserved
  /\ ToLower(TrimSpace(readLine)) = <<"s", "y", "s", "t", "e", "m">>
  /\ "Nickname 'System' is reserved. Please choose another nickname." \in Texts(written)

\* --------------------------------------------------------- local answers
\* a line Handle answers by itself: too long, over the rate, /who, /help,
\* an unknown command, or /me without text
LocalLine(str, ts, t) ==
  LET message == TrimSpace(str)
      parts == SplitN(message)
      word == ToLower(parts[1])
  IN /\ message # <<>>
     /\ \/ len(message) > MaxMessageLength
        \/ /\ ~HasPrefix(message, <<"/", "q", "u", "i", "t">>)
           /\ Len(keptTimestamps(ts, t)) > MessageRateLimit
        \/ /\ message[1] = "/"
           /\ \/ word \notin {<<"/", "m", "e">>, <<"/", "q", "u", "i", "t">>}
              \/ word = <<"/", "m", "e">> /\ (Len(parts) < 2 \/ TrimSpace(parts[2]) = <<>>)

\* the step writes to the connection of s only, changes nothing in the room,
\* submits nothing to it and leaves the session where it is
StaysLocal(s) ==
  /\ \A e \in written' : e.to = s
  /\ conn[s] = "open" => written' # {}
  /\ NothingForTheRoom(s)
  /\ conn' = conn

\* C27: an invalid nickname, a line that is too long or over the rate,
\* /who, /help, an unknown command and /me without text are answered on
\* the connection they came from and nowhere else: nothing is submitted to
\* the room, the history stays as it is, the session goes on.
C27_LocalStaysLocal ==
  [][\A s \in Sessions :
       /\ (NickStep(s) /\ ~ValidNickname(TrimSpace(readLine'))) => StaysLocal(s)
       /\ (ReadStep(s) /\ LocalLine(readLine', messageTimestamps, now'))
            => StaysLocal(s)]_vars

\* C27 witness: the room has delivered a line of the client that types, and
\* its next line was refused for its rate
C27_Witness ==
  /\ "Error: rate limit exceeded" \in Texts(written)
  /\ lines = MaxLines
  /\ pc[Typist] = "Handle"
  /\ conn[Typist] = "open"
  /\ history # <<>>
  /\ history[Len(history)].From = Nickname[Typist]

\* the goroutine of connection s has returned from handleConnection
Terminal(s) ==
  /\ pc[s] \in {"closed", "errRoomFull"}
  /\ s \notin registered
  /\ s \in netClosed

\* C25: an Active session whose Handle returns calls room.Leave for its
\* nickname, and Client.close closes the connection once: never twice,
\* whoever calls it (the watcher, /quit, the deferred function), and once
\* by the time the deferred function has run
C25_LeaveAndCloseOnce ==
  /\ [](\A s \in Sessions : closeCalls[s] <= 1)
  /\ [](\A s \in active : "defer" \in closedBy[s] =>
          closeCalls[s] = 1 /\ conn[s] = "nil" /\ pc[s] = "closed")
  /\ [][\A s \in active :
          /\ pc[s] = "Handle" /\ pc'[s] # "Handle" => pc'[s] = "Leave"
          /\ pc[s] # "closed" /\ pc'[s] = "closed" => pc[s] = "Leave"]_vars

\* the watcher, /quit and the deferred function have all called close on
\* one client
C25_Witness ==
  \E s \in active :
    /\ closedBy[s] = {"quit", "watcher", "defer"}
    /\ closeCalls[s] = 1
    /\ Terminal(s)

\* C26: once Server.Stop has cancelled the context, every accepted
\* connection is eventually closed and its goroutine returns, whether it
\* was negotiating a nickname or in Handle
C26_ShutdownEndsSessions ==
  (srvPc # "idle") ~> (crashed \/ \A s \in Sessions : pc[s] = "idle" \/ Terminal(s))

InSection == {w \in Writers : wpc[w] # "idle"}

\* what the connection has been given, and what the buffer holds for it
Output == wire \o writer

\* C29: at most one goroutine is between Lock and Unlock of a client's
\* write or sendMessage, it is the one that holds c.mu, and in the
\* client's output the two parts of a message lie side by side
C29_WritesExclusive ==
  /\ Cardinality(InSection) <= 1
  /\ \A w \in InSection : mu = w
  /\ \A i \in 1..Len(Output) :
       Output[i][2] = "head" /\ i < Len(Output) =>
          Output[i + 1] = <<Output[i][1], "tail">>
  /\ \A i \in 1..Len(Output) :
       Output[i][2] = "tail" => i > 1 /\ Output[i - 1] = <<Output[i][1], "head">>

\* Handle's write is between its two copies, after a delivery of
\* broadcastMessage went out whole
C29_Witness ==
  /\ wpc[0] = "copy"
  /\ Len(wire) >= 2 /\ wire[1][1] # 0
  /\ conn[Typist] = "open"

\* -------------------------------------------- whose entry a leave removes
\* session t holds the entry of nickname n: it occupies it, or it has
\* reserved it and its Join has not been received yet
Owns(t, n) ==
  /\ Nickname[t] = n
  /\ \/ clients[n] = t
     \/ clients[n] = Reserved /\ pc[t] = "Join"

\* the loop removes a client (removeClient) or rejects one (addClient)
TerminationStep == RemoveStep \/ (AddClientStep /\ loopPc' = "reject")

\* C31: when the loop removes or rejects a session, the only entry of the
\* registry that can change is the one under that session's nickname, and
\* not if another session holds it
C31_OnlyOwnEntry ==
  [][TerminationStep =>
       \A n \in Nicks :
         clients'[n] # clients[n] =>
           /\ n = Nickname[curClient]
           /\ ~ \E t \in Sessions \ {curClient} : Owns(t, n)]_vars

\* C32: c.messageTimestamps never holds more than 2 * MessageRateLimit
\* timestamps, however many lines the client sends.
C32_TimestampsBounded == Len(messageTimestamps) <= 2 * MessageRateLimit

\* C35: a line rejected with a reported wait is followed by an accepted
\* line when the client sends nothing for the reported wait and a tenth of
\* a second more (the report is rounded to tenths).
C35_WaitSuffices ==
  \A i \in 1..(Len(rateLog) - 1) :
    (/\ ~rateLog[i].ok
     /\ 10 * (rateLog[i + 1].at - rateLog[i].at) >= (rateLog[i].wait + 1) * TicksPerSecond)
       => rateLog[i + 1].ok

\* ------------------------------------------------------------ rendezvous
\* C33: a Join, Leave or Broadcast call returns only in a step in which the
\* loop, waiting at its select, receives the caller's request, or when the
\* room's context is cancelled; the loop holds the one request it received
\* and nothing waits in a channel.
C33_Rendezvous ==
  [][\A s \in Sessions :
       (pc[s] \in {"Join", "Leave", "Broadcast"} /\ pc'[s] \notin {pc[s], "panic"}) =>
          \/ ctxDone
          \/ /\ loopPc = "select" /\ loopPc' \in {"addClient", "removeClient", "broadcastMessage"}
             /\ IF pc[s] = "Broadcast" THEN curMsg' = outMsg[s] ELSE curClient' = s]_vars

\* the loop is working on the message it received from one session while
\* another session waits in its Join or Leave call
C33_Witness ==
  \E s, t \in Sessions :
    /\ s # t /\ ~ctxDone
    /\ loopPc = "broadcastMessage" /\ ~curMsg.IsSystem /\ curMsg.Timestamp[1] = s
    /\ pc[s] = "Handle"
    /\ pc[t] \in {"Join", "Leave"}

\* ------------------------------------------------------- the read timeout
\* what ReadString has collected of an unfinished line when the read
\* deadline passes; it returns these bytes together with the error
Partials == { <<>>, <<"h">>, <<"/", "q", "u", "i", "t">> }

\* variant: Handle returns on every read error, timeouts included
HandleReadTimeoutReturns(s, p) ==
  /\ pc[s] = "Handle"
  /\ s = Typist
  /\ conn[s] = "open"
  /\ srvPc = "idle"
  /\ readLine' = p
  /\ written' = {}
  /\ pc' = [pc EXCEPT ![s] = "Leave"]
  /\ lateCall' = callBegins(s)
  /\ UNCHANGED <<unread, conn, srvVars, writeVars>>
  /\ UNCHANGED <<roomCfg, stalled, rateVars, releaseArg, roomVars, loopVars, stopVars, msgGhosts>>
  /\ UNCHANGED <<cand, Nickname, fullRoomRejection, outMsg, crashed, lines>>

\* Handle: the deadline set by SetReadDeadline passes before a line is
\* complete; ReadString returns p and a timeout error, ctx.Err() is nil and
\* the loop continues with the next read, p is dropped
HandleReadTimeout(s, p) ==
  /\ pc[s] = "Handle"
  /\ s = Typist
  /\ conn[s] = "open"
  /\ srvPc = "idle"
  /\ readLine' = p
  /\ written' = {}
  /\ UNCHANGED <<unread, conn, srvVars, writeVars>>
  /\ UNCHANGED <<roomCfg, stalled, rateVars, releaseArg, roomVars, loopVars, stopVars, msgGhosts>>
  /\ UNCHANGED <<cand, Nickname, fullRoomRejection, outMsg, crashed, lines, pc, lateCall>>

NextIdle ==
  \/ NextHandle
  \/ \E p \in Partials : HandleReadTimeout(Typist, p)

\* the members of a full room, one of them typing with pauses
SpecIdle == InitDrain /\ [][NextIdle]_vars

\* a step in which ReadString hands Handle an unfinished line
TimeoutStep == pc[Typist] = "Handle" /\ readLine' \in Partials /\ readLine' # readLine

\* C34: a read timeout without cancellation leaves the session in Handle
\* with its connection open, and changes neither the room's client map, nor
\* a nickname, nor the limiter's timestamps; it hands the loop no message
\* and no leave request and writes nothing.
C34_TimeoutIsNoError ==
  [][TimeoutStep =>
       /\ pc'[Typist] = "Handle" /\ conn' = conn
       /\ clients' = clients /\ Nickname' = Nickname
       /\ messageTimestamps' = messageTimestamps
       /\ outMsg' = outMsg /\ curMsg' = curMsg /\ curClient' = curClient
       /\ loopPc' = loopPc /\ history' = history /\ pending' = pending
       /\ written' = {}]_vars

\* a member with a timestamp in its limiter has just had a read time out
\* in the middle of a line
C34_Witness ==
  /\ readLine \in Partials \ {<<>>}
  /\ pc[Typist] = "Handle"
  /\ conn[Typist] = "open"
  /\ clients[Nickname[Typist]] = Typist
  /\ messageTimestamps # <<>>

\* ------------------------------------------ the loop and a stalled write
\* C36: the loop never waits on a connection write: whatever connection is
\* stalled, a handler the loop is in can take its next step.
C36_LoopNeverWaitsOnWrite ==
  loopPc \notin {"select", "exited"} => ENABLED runRunning

\* ----------------------------------------------- notices around messages
\* C37: in the order in which the loop processes messages, the messages of
\* an admitted session of a room that is not stopping lie between the join
\* notice and the leave notice of its nickname: while the loop processes
\* such a message, the room's map holds the sender under the nickname the
\* message carries.
C37_NoticesAroundMessages ==
  (/\ loopPc = "broadcastMessage"
   /\ ~curMsg.IsSystem
   /\ ~fullRoomRejection[curMsg.Timestamp[1]]
   /\ ~ctxDone)
    => clients[curMsg.From] = curMsg.Timestamp[1]

\* ---------------------------------------------------- writes after close
\* C38: once Client.close has set c.conn to nil, no goroutine is past the
\* nil check of write or sendMessage, and no step puts anything into the
\* client's buffer or onto its connection; a writer that finds the
\* connection closed gives the mutex back and returns.
C38_NoWriteAfterClose ==
  /\ [](conn[Typist] = "nil" => \A w \in Writers : wpc[w] \in {"idle", "check"})
  /\ [][conn[Typist] = "nil" =>
          /\ wire' = wire /\ writer' = writer
          /\ \A w \in Writers :
               (wpc[w] = "check" /\ wpc'[w] # "check") =>
                  (wpc'[w] = "idle" /\ mu' = Unlocked)]_vars

\* the client was written to and has been closed, and a goroutine that
\* writes to it holds the mutex and is at the nil check
C38_Witness ==
  \E w \in Writers :
    /\ conn[Typist] = "nil"
    /\ wire # <<>>
    /\ mu = w
    /\ wpc[w] = "check"

==============================================================================
